---- MODULE Spec2Model ----
(***************************************************************************)
(* A model of the casebase-demo backend: the chat pipeline of              *)
(* ChatService.query (apps/backend/src/chat/chat.service.ts), the remote   *)
(* gateways it calls, and the text chunker of UploadService.               *)
(*                                                                         *)
(* Strings are modelled by what the code reads of them.  A message is a    *)
(* sequence of one-character strings; a retrieved text is a tag with its   *)
(* length; a prompt is a record naming the template and the values         *)
(* interpolated into it.  Similarity scores are counted in thousandths     *)
(* (0.5 is 500).                                                           *)
(***************************************************************************)
EXTENDS Integers, Sequences, FiniteSets, TLC

VARIABLES
    pc,              \* position of ChatService.query: which await it is suspended on
    args,            \* the arguments of ChatService.query
    searchResults,   \* chat.service.ts:61
    rawContext,      \* chat.service.ts:86/94, the value of buildContextFromResults
    context,         \* chat.service.ts:63
    useRAGContext,   \* chat.service.ts:64
    messages,        \* chat.service.ts:110, the list handed to the answer completion
    queryRequest,    \* vector-store.service.ts:143, the request sent to the index
    calls,           \* the remote calls of this query, in the order they start and end
    response,        \* what query() resolved with
    thrown,          \* the message of the error query() rejected with
    route,           \* the ChatController handler serving the request: query or stream
    body,            \* the request body
    cpc,             \* position of the handler: which await it is suspended on
    handler,         \* the handler's local variables
    chats,           \* the chat-history collection: chatId -> document
    storeLog,        \* the ChatHistoryService calls the handler has made, in order
    res,             \* the HTTP response: status, payload, SSE events written, ended
    gen,             \* the event generator the streaming handler iterates
    text,            \* the text UploadService.splitTextIntoChunks is given
    chunkSize,       \* UploadService.chunkSize
    chunkOverlap,    \* UploadService.chunkOverlap
    kpc,             \* position of splitTextIntoChunks
    startIndex,      \* upload.module.ts:230
    chunks,          \* upload.module.ts:223
    iterations,      \* the number of times the loop body has run
    windows,         \* the window [startIndex, chunkEnd) of every run of the loop body
    file,            \* the file UploadService.processDocument is given
    upc,             \* position of processDocument: which await it is suspended on
    documentId,      \* upload.module.ts:62
    vectors,         \* upload.module.ts:76, the argument of storeVectors
    uploaded,        \* what processDocument resolved or rejected with
    vpc,             \* position of VectorStoreService.storeVectors
    batchStart,      \* vector-store.service.ts:89, the loop index i
    upserts,         \* the index.upsert calls, in the order they start and end
    storeThrown,     \* the message of the error storeVectors rejected with
    indexed,         \* the records sent to the index by every upload, in the order sent
    others,          \* the locals of the other calls of processDocument, suspended or settled
    reqs,            \* the positions and locals of concurrent ChatController requests
    client           \* the position and locals of the frontend client's queryStream

pvars == <<pc, args, searchResults, rawContext, context, useRAGContext,
           messages, queryRequest, calls, response, thrown>>

cvars == <<route, body, cpc, handler, chats, storeLog, res, gen>>

kvars == <<text, chunkSize, chunkOverlap, kpc, startIndex, chunks, iterations,
           windows>>

uvars == <<file, upc, documentId, vectors, uploaded, vpc, batchStart, upserts,
           storeThrown, indexed, others>>

rvars == <<reqs>>

fvars == <<client>>

vars == <<pvars, cvars, kvars, uvars, rvars, fvars>>

\* What an action of ChatService leaves alone.
notPipeline == <<cvars, kvars, uvars, rvars, fvars>>

\* What an action of ChatController leaves alone outside the chat classes.
notController == <<kvars, uvars, rvars, fvars>>

\* What an action of splitTextIntoChunks leaves alone.
notChunker == <<pvars, cvars, uvars, rvars, fvars>>

\* What an action of ChatController leaves alone in ChatService.
pipelineLocals == <<searchResults, rawContext, context, useRAGContext,
                    messages, queryRequest, calls, response, thrown>>

----------------------------------------------------------------------------
(* Bounds of the model *)

MaxResults == 2

MaxHistory == 15

----------------------------------------------------------------------------
(* Values *)

\* chat.service.ts:79, in thousandths
relevanceThreshold == 500

\* chat.service.ts:128, conversationHistory.slice(-10)
HistoryWindow == 10

\* An optional value that is absent (undefined in the source).
Undefined == [defined |-> FALSE, items |-> <<>>]

Defined(v) == [defined |-> TRUE, items |-> v]

\* The empty string a context starts as (chat.service.ts:63).
EmptyString == [kind |-> "empty", results |-> <<>>, chars |-> <<>>, len |-> 0]

\* The matches the index can answer with, after similaritySearch's mapping
\* (id, score, metadata.text, metadata.filename).  An absent text or
\* filename is the empty tag.
Matches ==
    { [id |-> "d1_chunk_0", score |-> 900, text |-> [tag |-> "t1952", len |-> 1952], filename |-> ""],
      [id |-> "d1_chunk_1", score |-> 500, text |-> [tag |-> "t1953", len |-> 1953], filename |-> ""],
      [id |-> "d2_chunk_0", score |-> 300, text |-> [tag |-> "", len |-> 0], filename |-> "a.txt"],
      [id |-> "d2_chunk_1", score |-> 499, text |-> [tag |-> "t1952", len |-> 1952], filename |-> "a.txt"] }

\* The result lists a search can return: at most k distinct matches, in any order.
ResultLists(k) ==
    { s \in UNION { [1..n -> Matches] : n \in 0..k } :
        \A i, j \in 1..Len(s) : i # j => s[i].id # s[j].id }

\* What the completion endpoint can answer: a choice with a content (possibly
\* empty) or no choice at all, with or without a usage report.
Completions ==
    { [choices |-> c, usage |-> u] :
        c \in { <<>>, << <<>> >>, << <<"o", "k">> >> },
        u \in { <<>>, << [prompt_tokens |-> 7, completion_tokens |-> 3, total_tokens |-> 10] >> } }

\* The errors the OpenAI client can raise: with an HTTP response (status and
\* message of the response) or without one (a transport failure).
ClientErrors ==
    { [hasResponse |-> TRUE, status |-> 429, message |-> "Rate limit reached"],
      [hasResponse |-> TRUE, status |-> 401, message |-> "Incorrect API key"],
      [hasResponse |-> TRUE, status |-> 402, message |-> "Payment required"],
      [hasResponse |-> TRUE, status |-> 400, message |-> "You exceeded your current quota"],
      [hasResponse |-> TRUE, status |-> 503, message |-> "Overloaded"],
      [hasResponse |-> TRUE, status |-> 400, message |-> "Bad request"],
      [hasResponse |-> FALSE, status |-> 0, message |-> "socket hang up"] }

\* errorMessage?.includes('quota') on the messages above
IncludesQuota(message) == message \in { "You exceeded your current quota" }

\* The i-th turn of a stored conversation: user and assistant alternate.
Turn(i) == [role |-> IF i % 2 = 1 THEN "user" ELSE "assistant",
            content |-> <<"m", ToString(i)>>]

History(n) == [i \in 1..n |-> Turn(i)]

----------------------------------------------------------------------------
(* OpenAIService *)

\* The message of the Error createChatCompletion throws for a client error.
CreateChatCompletionError(e) ==
    IF e.hasResponse
    THEN IF e.status = 429
         THEN "OpenAI API rate limit exceeded. Please try again later or check your plan limits."
         ELSE IF e.status = 401
         THEN "OpenAI API authentication failed. Please check your API key in .env file."
         ELSE IF e.status = 402 \/ IncludesQuota(e.message)
         THEN "OpenAI API quota exceeded. Please check your plan and billing details at https://platform.openai.com/account/billing"
         ELSE IF e.status = 500 \/ e.status = 503
         THEN "OpenAI API service is temporarily unavailable. Please try again later."
         ELSE "OpenAI API error: " \o e.message
    ELSE "Chat completion failed: " \o e.message

----------------------------------------------------------------------------
(* ChatService: the pure helpers *)

\* The number of decimal digits of n >= 0.
Digits(n) == IF n < 10 THEN 1 ELSE IF n < 100 THEN 2 ELSE 3

\* The length of score.toFixed(3) for a score in thousandths, |score| < 10.
ToFixed3Len(score) == IF score < 0 THEN 6 ELSE 5

\* The length of one block of buildContextFromResults:
\* `[Context ${index + 1}] (Source: ${filename}, Relevance: ${score})\n${text}`
ContextPartLen(result, index) ==
    9 + Digits(index) + 11
      + (IF result.filename = "" THEN 7 ELSE Len(result.filename))
      + 13 + ToFixed3Len(result.score) + 2 + result.text.len

RECURSIVE SumPartLens(_, _)
SumPartLens(results, n) ==
    IF n = 0 THEN 0
    ELSE SumPartLens(results, n - 1) + ContextPartLen(results[n], n)

\* buildContextFromResults: the blocks of the results in order, joined by
\* "\n\n---\n\n" (7 characters).  The string is represented by the results
\* it renders and its length.
buildContextFromResults(results) ==
    IF Len(results) = 0
    THEN [kind |-> "none found", results |-> <<>>, chars |-> <<>>, len |-> 48]
    ELSE [kind |-> "raw", results |-> results, chars |-> <<>>,
          len |-> SumPartLens(results, Len(results)) + 7 * (Len(results) - 1)]

\* The filter with a strict comparison.
RelevantResults_Strict(results) ==
    SelectSeq(results, LAMBDA r : r.score > relevanceThreshold)

\* searchResults.filter((r) => r.score >= relevanceThreshold)
RelevantResults(results) ==
    SelectSeq(results, LAMBDA r : r.score >= relevanceThreshold)

\* The estimate taken as a whole number of tokens.
NeedsCompression_IntegerDivision(ctx, maxSummaryTokens) ==
    (ctx.len \div 4) > maxSummaryTokens

\* compressContext's test `estimatedTokens <= maxSummaryTokens` negated, with
\* estimatedTokens = context.length / 4 a floating-point quotient.
NeedsCompression(ctx, maxSummaryTokens) == ctx.len > 4 * maxSummaryTokens

\* compressionResult.choices[0]?.message?.content || context
CompressedContext(completion, ctx) ==
    IF Len(completion.choices) > 0 /\ Len(completion.choices[1]) > 0
    THEN [kind |-> "summary", results |-> <<>>,
          chars |-> completion.choices[1], len |-> Len(completion.choices[1])]
    ELSE ctx

\* A JavaScript string is truthy when it is not empty.
Truthy(ctx) == ctx.len > 0

\* composePrompt(userQuestion, context)
composePrompt(userQuestion, ctx) ==
    [kind |-> "composePrompt", chars |-> userQuestion, context |-> ctx]

PlainText(chars) == [kind |-> "text", chars |-> chars, context |-> EmptyString]

systemInstruction ==
    [kind |-> "systemInstruction", chars |-> <<>>, context |-> EmptyString]

generalSystemInstruction ==
    [kind |-> "generalSystemInstruction", chars |-> <<>>, context |-> EmptyString]

\* slice(0, n): the first n elements instead of the last.
SliceLast_First(seq, n) ==
    IF Len(seq) <= n THEN seq ELSE SubSeq(seq, 1, n)

\* Array.prototype.slice(-n)
SliceLast(seq, n) ==
    IF Len(seq) <= n THEN seq ELSE SubSeq(seq, Len(seq) - n + 1, Len(seq))

\* Step 4 of query: the system message, the recent history, the user turn.
ComposeMessages(a, useCtx, ctx) ==
    LET rag == useCtx /\ Truthy(ctx)
        recentHistory == SliceLast(a.conversationHistory, HistoryWindow)
    IN  << [role |-> "system",
            content |-> IF rag THEN systemInstruction ELSE generalSystemInstruction] >>
        \o [i \in 1..Len(recentHistory) |->
              [role |-> recentHistory[i].role,
               content |-> PlainText(recentHistory[i].content)]]
        \o << [role |-> "user",
               content |-> IF rag THEN composePrompt(a.userMessage, ctx)
                                  ELSE PlainText(a.userMessage)] >>

\* completion.choices[0]?.message?.content || ''
Answer(completion) ==
    IF Len(completion.choices) > 0 THEN completion.choices[1] ELSE <<>>

\* tokensUsed of the response: the usage fields, 0 where absent
TokensUsed(completion) ==
    IF Len(completion.usage) > 0
    THEN [prompt |-> completion.usage[1].prompt_tokens,
          completion |-> completion.usage[1].completion_tokens,
          total |-> completion.usage[1].total_tokens]
    ELSE [prompt |-> 0, completion |-> 0, total |-> 0]

\* The context array of the response (chat.service.ts:165-172).
ResponseContext(useCtx, results) ==
    IF useCtx /\ Len(results) > 0
    THEN Defined([i \in 1..Len(results) |->
                    [text |-> results[i].text,
                     score |-> results[i].score,
                     source |-> results[i].filename]])
    ELSE Undefined

NoResponse ==
    [answer |-> <<>>, context |-> Undefined,
     tokensUsed |-> [prompt |-> 0, completion |-> 0, total |-> 0]]

Call(op, ev) == [op |-> op, ev |-> ev]

----------------------------------------------------------------------------
(* ChatService.query, one action per resumption *)

\* The statements from "Step 4: Compose messages" to the await of the answer
\* completion (chat.service.ts:109-158).
ComposeAndComplete(useCtx, ctx, log) ==
    /\ messages' = ComposeMessages(args, useCtx, ctx)
    /\ calls' = Append(log, Call("complete", "call"))
    /\ pc' = "complete"

\* query() is entered: with useRAG the embedding is requested, otherwise the
\* messages are composed at once.
QueryStart ==
    /\ pc = "called"
    /\ IF args.useRAG
       THEN /\ pc' = "embed"
            /\ calls' = Append(calls, Call("embed", "call"))
            /\ UNCHANGED messages
       ELSE ComposeAndComplete(useRAGContext, context, calls)
    /\ UNCHANGED <<args, searchResults, rawContext, context, useRAGContext,
                   queryRequest, response, thrown>>
    /\ UNCHANGED notPipeline

\* A search that asks for the default of five results whatever the caller gave.
EmbedReturns_DefaultTopK ==
    /\ pc = "embed"
    /\ pc' = "search"
    /\ queryRequest' = Defined(<<[topK |-> 5, includeMetadata |-> TRUE]>>)
    /\ calls' = calls \o <<Call("embed", "ret"), Call("search", "call")>>
    /\ UNCHANGED <<args, searchResults, rawContext, context, useRAGContext,
                   messages, response, thrown>>
    /\ UNCHANGED notPipeline

\* generateEmbedding resolved: similaritySearch sends its request.
EmbedReturns ==
    /\ pc = "embed"
    /\ pc' = "search"
    /\ queryRequest' = Defined(<<[topK |-> args.topK, includeMetadata |-> TRUE]>>)
    /\ calls' = calls \o <<Call("embed", "ret"), Call("search", "call")>>
    /\ UNCHANGED <<args, searchResults, rawContext, context, useRAGContext,
                   messages, response, thrown>>
    /\ UNCHANGED notPipeline

\* generateEmbedding rejected: the catch at chat.service.ts:100 falls through.
EmbedThrows ==
    /\ pc = "embed"
    /\ ComposeAndComplete(useRAGContext, context, Append(calls, Call("embed", "throw")))
    /\ UNCHANGED <<args, searchResults, rawContext, context, useRAGContext,
                   queryRequest, response, thrown>>
    /\ UNCHANGED notPipeline

\* The results the prompt context is built from (chat.service.ts:80-99):
\* the relevant ones, or all of them when none is relevant.
SelectedResults(results) ==
    IF Len(RelevantResults(results)) > 0 THEN RelevantResults(results) ELSE results

\* similaritySearch resolved with `results`: filter, build the context and
\* either compress it (a further await) or go on to compose the messages.
SearchReturns ==
    /\ pc = "search"
    /\ \E results \in ResultLists(IF args.topK < MaxResults THEN args.topK ELSE MaxResults) :
         LET raw == buildContextFromResults(SelectedResults(results))
             log == Append(calls, Call("search", "ret"))
         IN  /\ searchResults' = results
             /\ IF Len(results) > 0
                THEN /\ useRAGContext' = TRUE
                     /\ rawContext' = raw
                     /\ IF args.compressPrompt /\ NeedsCompression(raw, args.maxSummaryTokens)
                        THEN /\ pc' = "compress"
                             /\ calls' = Append(log, Call("compress", "call"))
                             /\ UNCHANGED <<context, messages>>
                        ELSE /\ context' = raw
                             /\ ComposeAndComplete(TRUE, raw, log)
                ELSE /\ UNCHANGED <<useRAGContext, rawContext, context>>
                     /\ ComposeAndComplete(useRAGContext, context, log)
    /\ UNCHANGED <<args, queryRequest, response, thrown>>
    /\ UNCHANGED notPipeline

\* The search failure escaping query().
SearchThrows_Rethrows ==
    /\ pc = "search"
    /\ pc' = "threw"
    /\ thrown' = "Vector search failed: socket hang up"
    /\ calls' = Append(calls, Call("search", "throw"))
    /\ UNCHANGED <<args, searchResults, rawContext, context, useRAGContext,
                   messages, queryRequest, response>>
    /\ UNCHANGED notPipeline

\* similaritySearch rejected: the catch at chat.service.ts:100 falls through.
SearchThrows ==
    /\ pc = "search"
    /\ ComposeAndComplete(useRAGContext, context, Append(calls, Call("search", "throw")))
    /\ UNCHANGED <<args, searchResults, rawContext, context, useRAGContext,
                   queryRequest, response, thrown>>
    /\ UNCHANGED notPipeline

\* The messages composed from the context as it was before compression ended.
CompressionReturns_ComposesEarly ==
    /\ pc = "compress"
    /\ \E completion \in Completions :
         /\ context' = CompressedContext(completion, rawContext)
         /\ ComposeAndComplete(useRAGContext, rawContext,
                               Append(calls, Call("compress", "ret")))
    /\ UNCHANGED <<args, searchResults, rawContext, useRAGContext,
                   queryRequest, response, thrown>>
    /\ UNCHANGED notPipeline

\* The compression completion resolved (chat.service.ts:255-273).
CompressionReturns ==
    /\ pc = "compress"
    /\ \E completion \in Completions :
         /\ context' = CompressedContext(completion, rawContext)
         /\ ComposeAndComplete(useRAGContext, context',
                               Append(calls, Call("compress", "ret")))
    /\ UNCHANGED <<args, searchResults, rawContext, useRAGContext,
                   queryRequest, response, thrown>>
    /\ UNCHANGED notPipeline

\* The compression failure escaping compressContext: the retrieval catch
\* takes it and the context stays empty.
CompressionThrows_Propagates ==
    /\ pc = "compress"
    /\ ComposeAndComplete(useRAGContext, context,
                          Append(calls, Call("compress", "throw")))
    /\ UNCHANGED <<args, searchResults, rawContext, context, useRAGContext,
                   queryRequest, response, thrown>>
    /\ UNCHANGED notPipeline

\* The compression completion rejected: the catch at chat.service.ts:274
\* returns the original context.
CompressionThrows ==
    /\ pc = "compress"
    /\ context' = rawContext
    /\ ComposeAndComplete(useRAGContext, rawContext,
                          Append(calls, Call("compress", "throw")))
    /\ UNCHANGED <<args, searchResults, rawContext, useRAGContext,
                   queryRequest, response, thrown>>
    /\ UNCHANGED notPipeline

\* The answer completion resolved: query() returns (chat.service.ts:160-178).
CompletionReturns ==
    /\ pc = "complete"
    /\ \E completion \in Completions :
         response' = [answer |-> Answer(completion),
                      context |-> ResponseContext(useRAGContext, searchResults),
                      tokensUsed |-> TokensUsed(completion)]
    /\ pc' = "returned"
    /\ calls' = Append(calls, Call("complete", "ret"))
    /\ UNCHANGED <<args, searchResults, rawContext, context, useRAGContext,
                   messages, queryRequest, thrown>>
    /\ UNCHANGED notPipeline

\* The completion failure swallowed and an empty answer returned.
CompletionThrows_FallbackAnswer ==
    /\ pc = "complete"
    /\ response' = [answer |-> <<>>,
                    context |-> ResponseContext(useRAGContext, searchResults),
                    tokensUsed |-> [prompt |-> 0, completion |-> 0, total |-> 0]]
    /\ pc' = "returned"
    /\ calls' = Append(calls, Call("complete", "throw"))
    /\ UNCHANGED <<args, searchResults, rawContext, context, useRAGContext,
                   messages, queryRequest, thrown>>
    /\ UNCHANGED notPipeline

\* The answer completion rejected: the catch at chat.service.ts:179 rethrows.
CompletionThrows ==
    /\ pc = "complete"
    /\ \E e \in ClientErrors : thrown' = CreateChatCompletionError(e)
    /\ pc' = "threw"
    /\ calls' = Append(calls, Call("complete", "throw"))
    /\ UNCHANGED <<args, searchResults, rawContext, context, useRAGContext,
                   messages, queryRequest, response>>
    /\ UNCHANGED notPipeline

----------------------------------------------------------------------------
(* ChatHistoryService *)

ChatIds == { "c1", "c2", "u1", "u2" }

\* The ids randomUUID() can give the chat the handler creates.
FreshIds == { "u1" }

\* The ids randomUUID() can give the chats other clients create; no id is
\* given twice.
OtherIds == { "u2" }

NoChat == [exists |-> FALSE, messages |-> <<>>]

\* A stored message; tokensUsed holds zero or one record.
StoredMessage(role, content, ctx, tokens) ==
    [role |-> role, content |-> content, context |-> ctx, tokensUsed |-> tokens]

\* A stored conversation of n earlier turns.
StoredHistory(n) ==
    [i \in 1..n |-> StoredMessage(Turn(i).role, Turn(i).content, Undefined, <<>>)]

\* getMessagesForOpenAI: the user and assistant messages, role and content only
getMessagesForOpenAI(stored) ==
    LET kept == SelectSeq(stored, LAMBDA m : m.role = "user" \/ m.role = "assistant")
    IN  [i \in 1..Len(kept) |-> [role |-> kept[i].role, content |-> kept[i].content]]

\* The save of addMessage: the pushed message is appended to the stored
\* messages of the document (chat-history.service.ts:69-71).
addMessage(store, id, message) ==
    [store EXCEPT ![id] = [exists |-> TRUE,
                           messages |-> Append(store[id].messages, message)]]

StoreCall(op, id) == [op |-> op, chatId |-> id]

----------------------------------------------------------------------------
(* ChatController: request bodies and validation *)

Absent == [defined |-> FALSE, value |-> 0]

Present(n) == [defined |-> TRUE, value |-> n]

AbsentFlag == [defined |-> FALSE, value |-> FALSE]

PresentFlag(b) == [defined |-> TRUE, value |-> b]

\* body.message: missing, not a string, or a string of characters
BodyMessages ==
    { [type |-> "undefined", chars |-> <<>>],
      [type |-> "number", chars |-> <<>>],
      [type |-> "string", chars |-> <<>>],
      [type |-> "string", chars |-> <<" ", "\n">>],
      [type |-> "string", chars |-> <<"\r", "U+00A0">>],
      [type |-> "string", chars |-> <<" ", "h", "i", " ">>] }

Bodies ==
    [message : BodyMessages,
     chatId : { "", "c1", "c2" },
     topK : { Absent, Present(0), Present(1), Present(20), Present(21) },
     useRAG : { AbsentFlag, PresentFlag(FALSE) },
     compressPrompt : { AbsentFlag, PresentFlag(FALSE) },
     maxSummaryTokens : { Absent, Present(99), Present(100), Present(2000), Present(2001) }]

\* The characters String.prototype.trim strips: the ECMAScript WhiteSpace and
\* LineTerminator code points; those without an escape are named by code point.
WhiteSpace ==
    { "\t", "\n", "U+000B", "\f", "\r", " ", "U+00A0", "U+1680",
      "U+2000", "U+2001", "U+2002", "U+2003", "U+2004", "U+2005", "U+2006",
      "U+2007", "U+2008", "U+2009", "U+200A", "U+2028", "U+2029", "U+202F",
      "U+205F", "U+3000", "U+FEFF" }

RECURSIVE TrimStart(_)
TrimStart(chars) ==
    IF Len(chars) > 0 /\ Head(chars) \in WhiteSpace THEN TrimStart(Tail(chars)) ELSE chars

RECURSIVE TrimEnd(_)
TrimEnd(chars) ==
    IF Len(chars) > 0 /\ chars[Len(chars)] \in WhiteSpace
    THEN TrimEnd(SubSeq(chars, 1, Len(chars) - 1))
    ELSE chars

\* String.prototype.trim
Trim(chars) == TrimEnd(TrimStart(chars))

\* body.x !== undefined ? body.x : default
OrDefault(opt, default) == IF opt.defined THEN opt.value ELSE default

\* The validation without the upper bound of topK.
ValidationError_NoUpperBound(b) ==
    IF b.message.type # "string" \/ Len(b.message.chars) = 0
    THEN "Message is required and must be a string"
    ELSE IF Len(Trim(b.message.chars)) = 0
    THEN "Message cannot be empty"
    ELSE IF OrDefault(b.topK, 5) < 1
    THEN "topK must be between 1 and 20"
    ELSE IF OrDefault(b.maxSummaryTokens, 500) < 100 \/ OrDefault(b.maxSummaryTokens, 500) > 2000
    THEN "maxSummaryTokens must be between 100 and 2000"
    ELSE ""

\* The message of the BadRequestException the validation throws, or "" when
\* the body passes (chat.controller.ts:38-67 and 258-278).
ValidationError(b) ==
    IF b.message.type # "string" \/ Len(b.message.chars) = 0
    THEN "Message is required and must be a string"
    ELSE IF Len(Trim(b.message.chars)) = 0
    THEN "Message cannot be empty"
    ELSE IF OrDefault(b.topK, 5) < 1 \/ OrDefault(b.topK, 5) > 20
    THEN "topK must be between 1 and 20"
    ELSE IF OrDefault(b.maxSummaryTokens, 500) < 100 \/ OrDefault(b.maxSummaryTokens, 500) > 2000
    THEN "maxSummaryTokens must be between 100 and 2000"
    ELSE ""

\* The handler's locals once the body is validated; history tells of the
\* document addMessage works on (chat-history.service.ts:65): "none", "held"
\* once findOne or createChatHistory gave it, "gone" once that document was
\* deleted from the collection; length is the number of messages the
\* document had when addMessage got it.
Locals(b) ==
    [message |-> Trim(b.message.chars),
     topK |-> OrDefault(b.topK, 5),
     useRAG |-> OrDefault(b.useRAG, TRUE),
     compressPrompt |-> OrDefault(b.compressPrompt, TRUE),
     maxSummaryTokens |-> OrDefault(b.maxSummaryTokens, 500),
     chatId |-> b.chatId,
     conversationHistory |-> <<>>,
     fullAnswer |-> <<>>,
     context |-> Undefined,
     history |-> "none",
     length |-> 0]

NoLocals ==
    [message |-> <<>>, topK |-> 0, useRAG |-> FALSE, compressPrompt |-> FALSE,
     maxSummaryTokens |-> 0, chatId |-> "", conversationHistory |-> <<>>,
     fullAnswer |-> <<>>, context |-> Undefined, history |-> "none", length |-> 0]

NoBody ==
    [message |-> [type |-> "undefined", chars |-> <<>>], chatId |-> "",
     topK |-> Absent, useRAG |-> AbsentFlag, compressPrompt |-> AbsentFlag,
     maxSummaryTokens |-> Absent]

NoArgs ==
    [userMessage |-> <<>>, topK |-> 0, useRAG |-> FALSE, compressPrompt |-> FALSE,
     maxSummaryTokens |-> 0, conversationHistory |-> <<>>]

\* The generator of ChatService.queryStream: whether it was started, the
\* number of chunk and context events it yielded, whether it yielded done.
NoGen == [started |-> FALSE, yielded |-> 0, done |-> FALSE, args |-> NoArgs]

\* An SSE event `data: ${JSON.stringify({ type, data })}\n\n`
Event(type, id, chars, ctx, error) ==
    [type |-> type, chatId |-> id, text |-> chars, context |-> ctx, error |-> error]

NoRes ==
    [status |-> 0, success |-> FALSE, error |-> "", message |-> "",
     chatId |-> "", data |-> NoResponse,
     headers |-> FALSE, written |-> <<>>, ended |-> FALSE]

\* errorMessage.includes('quota') || includes('rate limit') || includes('OpenAI')
\* on the messages ChatService.query can reject with.
IsOpenAIMessage(message) ==
    message \in { CreateChatCompletionError(e) : e \in { x \in ClientErrors : x.hasResponse } }

\* Every unexpected error reported as a generic processing error.
ServerError_AlwaysGeneric(message) ==
    [NoRes EXCEPT !.status = 500, !.error = "Chat Processing Error",
                  !.message = "Failed to process chat query: " \o message,
                  !.ended = TRUE]

\* The payload of the InternalServerErrorException for an unexpected error
\* (chat.controller.ts:132-151).
ServerError(message) ==
    IF IsOpenAIMessage(message)
    THEN [NoRes EXCEPT !.status = 500, !.error = "OpenAI API Error",
                       !.message = message, !.ended = TRUE]
    ELSE [NoRes EXCEPT !.status = 500, !.error = "Chat Processing Error",
                       !.message = "Failed to process chat query: " \o message,
                       !.ended = TRUE]

----------------------------------------------------------------------------
(* ChatController.query and ChatController.queryStream, one action per resumption *)

\* The handler has the chat and its history: it runs the pipeline.  query
\* calls ChatService.query; queryStream sets the SSE headers, writes the
\* chatId event and starts iterating ChatService.queryStream.
StartPipeline(history, id) ==
    /\ handler' = [handler EXCEPT !.conversationHistory = history, !.chatId = id]
    /\ IF route = "query"
       THEN /\ args' = [userMessage |-> handler.message,
                        topK |-> handler.topK,
                        useRAG |-> handler.useRAG,
                        compressPrompt |-> handler.compressPrompt,
                        maxSummaryTokens |-> handler.maxSummaryTokens,
                        conversationHistory |-> history]
            /\ pc' = "called"
            /\ cpc' = "pipeline"
            /\ UNCHANGED <<res, gen>>
       ELSE /\ res' = [res EXCEPT !.headers = TRUE,
                                  !.written = Append(@, Event("chatId", id, <<>>, Undefined, ""))]
            /\ gen' = [started |-> TRUE, yielded |-> 0, done |-> FALSE,
                       args |-> [userMessage |-> handler.message,
                                 topK |-> handler.topK,
                                 useRAG |-> handler.useRAG,
                                 compressPrompt |-> handler.compressPrompt,
                                 maxSummaryTokens |-> handler.maxSummaryTokens,
                                 conversationHistory |-> history]]
            /\ cpc' = "streaming"
            /\ UNCHANGED <<args, pc>>

\* A request arrives: the handler validates the body and, when it passes,
\* asks for the chat's history or for a new chat (the first await).
Receive ==
    /\ cpc = "idle"
    /\ \E r \in { "query", "stream" }, b \in Bodies :
         /\ route' = r
         /\ body' = b
         /\ IF ValidationError(b) # ""
            THEN /\ res' = IF r = "query"
                           THEN [NoRes EXCEPT !.status = 400, !.error = "Bad Request",
                                              !.message = ValidationError(b), !.ended = TRUE]
                           ELSE [NoRes EXCEPT !.status = 400, !.error = ValidationError(b),
                                              !.ended = TRUE]
                 /\ cpc' = "responded"
                 /\ UNCHANGED <<handler, storeLog>>
            ELSE /\ handler' = Locals(b)
                 /\ IF b.chatId # ""
                    THEN /\ cpc' = "getHistory"
                         /\ storeLog' = Append(storeLog, StoreCall("getChatHistory", b.chatId))
                    ELSE /\ cpc' = "createHistory"
                         /\ storeLog' = Append(storeLog, StoreCall("createChatHistory", ""))
                 /\ UNCHANGED res
    /\ UNCHANGED <<chats, gen, pvars>>
    /\ UNCHANGED notController

\* getChatHistory resolved or threw NotFoundException.
GetHistoryReturns ==
    /\ cpc = "getHistory"
    /\ IF chats[handler.chatId].exists
       THEN /\ StartPipeline(getMessagesForOpenAI(chats[handler.chatId].messages),
                             handler.chatId)
            /\ UNCHANGED storeLog
       ELSE /\ cpc' = "createHistory"
            /\ storeLog' = Append(storeLog, StoreCall("createChatHistory", handler.chatId))
            /\ UNCHANGED <<handler, res, gen, args, pc>>
    /\ UNCHANGED <<route, body, chats, pipelineLocals>>
    /\ UNCHANGED notController

\* createChatHistory resolved: the new chat is stored with no message.
CreateHistoryReturns ==
    /\ cpc = "createHistory"
    /\ \E id \in (IF handler.chatId # "" THEN { handler.chatId } ELSE FreshIds) :
         /\ ~chats[id].exists
         /\ chats' = [chats EXCEPT ![id] = [exists |-> TRUE, messages |-> <<>>]]
         /\ StartPipeline(<<>>, id)
    /\ UNCHANGED <<route, body, storeLog, pipelineLocals>>
    /\ UNCHANGED notController

\* The positions of a handler inside addMessage: awaiting findOne
\* ("addUser", "addAssistant"), createChatHistory or save.
FindPositions == { "addUser", "addAssistant" }

CreatePositions == { "addUserCreate", "addAssistantCreate" }

SavePositions == { "addUserSave", "addAssistantSave" }

\* The message of the error save() rejects with for a document that is no
\* longer in the collection.
DocumentNotFound == "No document found for query"

\* The message of the ValidationError save() rejects with when the content
\* of the message pushed at index n is empty: the schema requires the
\* content (chat-history.schema.ts:15), and Mongoose's required validator
\* refuses the empty string.  The message quotes the path between two grave
\* accents, written here by their code point U+0060.
ValidationFailed(n) ==
    "ChatHistory validation failed: messages." \o ToString(n)
        \o ".content: Path U+0060contentU+0060 is required."

\* The answer the handler saves as the assistant message.
SavedAnswer == IF route = "query" THEN response.answer ELSE handler.fullAnswer

\* The messages a ChatHistoryService call can reject with where the handler
\* is.  The save of an assistant message without content is refused by the
\* validation, which runs before the document is written; any other call
\* can meet a database error, and the save of a deleted document the error
\* of the missing document.
StoreErrors ==
    IF cpc = "addAssistantSave" /\ Len(SavedAnswer) = 0
    THEN { ValidationFailed(handler.length) }
    ELSE { "connection closed" }
         \cup (IF cpc \in SavePositions /\ handler.history = "gone"
               THEN { DocumentNotFound }
               ELSE {})

\* A ChatHistoryService call rejected.  query's catch maps it to a server
\* error; queryStream answers with JSON before the stream has started and
\* with an error event inside the streaming loop.
StoreFails ==
    /\ cpc \in { "getHistory", "createHistory" }
               \cup FindPositions \cup CreatePositions \cup SavePositions
    /\ \E e \in StoreErrors :
         res' = IF route = "query"
                THEN ServerError(e)
                ELSE IF cpc \in { "getHistory", "createHistory" }
                THEN [NoRes EXCEPT !.status = 500,
                         !.error = "Failed to process streaming chat query: " \o e,
                         !.ended = TRUE]
                ELSE [res EXCEPT !.written = Append(@, Event("error", "", <<>>, Undefined, e)),
                                 !.ended = TRUE]
    /\ cpc' = "responded"
    /\ UNCHANGED <<route, body, handler, chats, storeLog, gen, pvars>>
    /\ UNCHANGED notController

\* ChatService.query resolved: the user message is saved (chat.controller.ts:102).
PipelineReturns ==
    /\ route = "query"
    /\ cpc = "pipeline"
    /\ pc = "returned"
    /\ cpc' = "addUser"
    /\ storeLog' = Append(storeLog, StoreCall("addMessage", handler.chatId))
    /\ UNCHANGED <<route, body, handler, chats, res, gen, pvars>>
    /\ UNCHANGED notController

\* ChatService.query rejected: the catch at chat.controller.ts:124.
PipelineThrows ==
    /\ route = "query"
    /\ cpc = "pipeline"
    /\ pc = "threw"
    /\ res' = ServerError(thrown)
    /\ cpc' = "responded"
    /\ UNCHANGED <<route, body, handler, chats, storeLog, gen, pvars>>
    /\ UNCHANGED notController

\* findOne answered addMessage: with the stored document the message is
\* pushed on it and its save is awaited, with null createChatHistory(chatId)
\* is awaited first (chat-history.service.ts:65-71).
AddMessageFindReturns ==
    /\ cpc \in FindPositions
    /\ IF chats[handler.chatId].exists
       THEN /\ cpc' = IF cpc = "addUser" THEN "addUserSave" ELSE "addAssistantSave"
            /\ handler' = [handler EXCEPT !.history = "held",
                                          !.length = Len(chats[handler.chatId].messages)]
       ELSE /\ cpc' = IF cpc = "addUser" THEN "addUserCreate" ELSE "addAssistantCreate"
            /\ UNCHANGED handler
    /\ UNCHANGED <<route, body, chats, storeLog, res, gen, pvars>>
    /\ UNCHANGED notController

\* The createChatHistory of addMessage resolved: the new chat is stored with
\* no message, the message is pushed on it and its save is awaited
\* (chat-history.service.ts:20-29, 66-71).  Where the chat is stored again
\* the unique index on chatId rejects the new document (StoreFails).
AddMessageCreateReturns ==
    /\ cpc \in CreatePositions
    /\ ~ chats[handler.chatId].exists
    /\ chats' = [chats EXCEPT ![handler.chatId] = [exists |-> TRUE, messages |-> <<>>]]
    /\ cpc' = IF cpc = "addUserCreate" THEN "addUserSave" ELSE "addAssistantSave"
    /\ handler' = [handler EXCEPT !.history = "held", !.length = 0]
    /\ UNCHANGED <<route, body, storeLog, res, gen, pvars>>
    /\ UNCHANGED notController

\* The save of addMessage for the user message resolved; addMessage is
\* called for the assistant message next.
AddUserReturns ==
    /\ cpc = "addUserSave"
    /\ handler.history = "held"
    /\ chats' = addMessage(chats, handler.chatId,
                           StoredMessage("user", handler.message, Undefined, <<>>))
    /\ cpc' = "addAssistant"
    /\ handler' = [handler EXCEPT !.history = "none", !.length = 0]
    /\ storeLog' = Append(storeLog, StoreCall("addMessage", handler.chatId))
    /\ UNCHANGED <<route, body, res, gen, pvars>>
    /\ UNCHANGED notController

\* The save of addMessage for the assistant message resolved: query returns
\* its result, queryStream writes the done event and ends the response.  The
\* schema requires the content of a message (chat-history.schema.ts:14), and
\* a required string is refused by save() when it is empty: an empty answer
\* never resolves here, its addMessage rejects (StoreFails).
AddAssistantReturns ==
    /\ cpc = "addAssistantSave"
    /\ handler.history = "held"
    /\ Len(SavedAnswer) > 0
    /\ IF route = "query"
       THEN /\ chats' = addMessage(chats, handler.chatId,
                            StoredMessage("assistant", response.answer, response.context,
                                          <<response.tokensUsed>>))
            /\ res' = [res EXCEPT !.status = 201, !.success = TRUE,
                                  !.chatId = handler.chatId, !.data = response,
                                  !.ended = TRUE]
       ELSE /\ chats' = addMessage(chats, handler.chatId,
                            StoredMessage("assistant", handler.fullAnswer, handler.context, <<>>))
            /\ res' = [res EXCEPT !.written =
                          Append(@, Event("done", handler.chatId, handler.fullAnswer,
                                          handler.context, "")),
                                  !.ended = TRUE]
    /\ cpc' = "responded"
    /\ handler' = [handler EXCEPT !.history = "none", !.length = 0]
    /\ UNCHANGED <<route, body, storeLog, gen, pvars>>
    /\ UNCHANGED notController

\* The number of DELETE /chat/history/:chatId requests of other clients
\* answered while the handler works on its request.
MaxDeletes == 1

IsDelete(c) == c.op = "deleteChatHistory"

\* Another client's DELETE /chat/history/:chatId for the chat of the request
\* is answered while the handler awaits: deleteOne removes the stored chat,
\* and a document of it that addMessage holds is no longer in the collection
\* (chat-history.service.ts:94-101, chat.controller.ts:228-246).  The delete
\* of any other chat touches nothing the handler reads or writes.
DeleteChatHistory ==
    /\ cpc \in { "getHistory", "createHistory", "pipeline", "streaming" }
               \cup FindPositions \cup CreatePositions \cup SavePositions
    /\ Len(SelectSeq(storeLog, IsDelete)) < MaxDeletes
    /\ handler.chatId \in ChatIds
    /\ chats[handler.chatId].exists
    /\ chats' = [chats EXCEPT ![handler.chatId] = NoChat]
    /\ storeLog' = Append(storeLog, StoreCall("deleteChatHistory", handler.chatId))
    /\ handler' = IF handler.history = "held"
                  THEN [handler EXCEPT !.history = "gone"]
                  ELSE handler
    /\ UNCHANGED <<route, body, cpc, res, gen, pvars>>
    /\ UNCHANGED notController

\* Another client's POST /chat/history is answered while the handler
\* awaits: createChatHistory() stores a new chat without messages under an
\* id of its own (chat.controller.ts:206-223, chat-history.service.ts:20-29).
CreateChat ==
    /\ cpc \in { "getHistory", "createHistory", "pipeline", "streaming" }
               \cup FindPositions \cup CreatePositions \cup SavePositions
    /\ \E id \in OtherIds :
         /\ ~ chats[id].exists
         /\ chats' = [chats EXCEPT ![id] = [exists |-> TRUE, messages |-> <<>>]]
    /\ UNCHANGED <<route, body, cpc, handler, storeLog, res, gen, pvars>>
    /\ UNCHANGED notController

----------------------------------------------------------------------------
(* The events of ChatService.queryStream, as the streaming handler sees them *)

MaxYields == 2

ChunkTexts == { <<"o">>, <<"k">> }

ContextLists == { ResponseContext(TRUE, <<m>>) : m \in { x \in Matches : x.score >= 900 } }

DoneData == [answer : { <<>>, <<"o", "k">> }, context : { Undefined } \cup ContextLists]

\* The generator yields a chunk: it is appended to the answer and written.
StreamYieldsChunk ==
    /\ cpc = "streaming"
    /\ gen.yielded < MaxYields
    /\ \E data \in ChunkTexts :
         /\ handler' = [handler EXCEPT !.fullAnswer = @ \o data]
         /\ res' = [res EXCEPT !.written = Append(@, Event("chunk", "", data, Undefined, ""))]
    /\ gen' = [gen EXCEPT !.yielded = @ + 1]
    /\ UNCHANGED <<route, body, cpc, chats, storeLog, pvars>>
    /\ UNCHANGED notController

\* The generator yields the context: it is kept and written.
StreamYieldsContext ==
    /\ cpc = "streaming"
    /\ gen.yielded < MaxYields
    /\ \E ctx \in ContextLists :
         /\ handler' = [handler EXCEPT !.context = ctx]
         /\ res' = [res EXCEPT !.written = Append(@, Event("context", "", <<>>, ctx, ""))]
    /\ gen' = [gen EXCEPT !.yielded = @ + 1]
    /\ UNCHANGED <<route, body, cpc, chats, storeLog, pvars>>
    /\ UNCHANGED notController

\* The generator yields done: the handler takes the answer and the context
\* from it and saves the user message (chat.controller.ts:327-336).
StreamYieldsDone ==
    /\ cpc = "streaming"
    /\ \E d \in DoneData :
         handler' = [handler EXCEPT !.fullAnswer = d.answer, !.context = d.context]
    /\ gen' = [gen EXCEPT !.done = TRUE]
    /\ cpc' = "addUser"
    /\ storeLog' = Append(storeLog, StoreCall("addMessage", handler.chatId))
    /\ UNCHANGED <<route, body, chats, res, pvars>>
    /\ UNCHANGED notController

\* The catch saving the user message and the partial answer before it
\* reports the error.
StreamThrows_SavesPartial ==
    /\ cpc = "streaming"
    /\ \E e \in ClientErrors :
         res' = [res EXCEPT !.written = Append(@, Event("error", "", <<>>, Undefined,
                                                       CreateChatCompletionError(e))),
                            !.ended = TRUE]
    /\ chats' = addMessage(addMessage(chats, handler.chatId,
                               StoredMessage("user", handler.message, Undefined, <<>>)),
                           handler.chatId,
                           StoredMessage("assistant", handler.fullAnswer, handler.context, <<>>))
    /\ cpc' = "responded"
    /\ UNCHANGED <<route, body, handler, storeLog, gen, pvars>>
    /\ UNCHANGED notController

\* The generator throws: the catch at chat.controller.ts:350 writes an error
\* event and ends the response.
StreamThrows ==
    /\ cpc = "streaming"
    /\ \E e \in ClientErrors :
         res' = [res EXCEPT !.written = Append(@, Event("error", "", <<>>, Undefined,
                                                       CreateChatCompletionError(e))),
                            !.ended = TRUE]
    /\ cpc' = "responded"
    /\ UNCHANGED <<route, body, handler, chats, storeLog, gen, pvars>>
    /\ UNCHANGED notController

\* The generator finishes without yielding done: the loop ends and the
\* handler returns.
StreamCompletes ==
    /\ cpc = "streaming"
    /\ cpc' = "returned"
    /\ UNCHANGED <<route, body, handler, chats, storeLog, res, gen, pvars>>
    /\ UNCHANGED notController

----------------------------------------------------------------------------
(* UploadService.splitTextIntoChunks *)

\* The characters of the texts: a letter and the three break characters.
Alphabet == { "a", ".", " ", "\n" }

\* A backward search that starts below fromIndex.
LastIndexOf_Exclusive(str, ch, fromIndex) ==
    LET at == { i \in 0..(Len(str) - 1) : i < fromIndex /\ str[i + 1] = ch }
    IN  IF at = {} THEN -1 ELSE CHOOSE i \in at : \A j \in at : j <= i

\* String.prototype.lastIndexOf(ch, fromIndex), indices from 0: the highest
\* index at most fromIndex holding ch, or -1.
LastIndexOf(str, ch, fromIndex) ==
    LET at == { i \in 0..(Len(str) - 1) : i <= fromIndex /\ str[i + 1] = ch }
    IN  IF at = {} THEN -1 ELSE CHOOSE i \in at : \A j \in at : j <= i

\* String.prototype.substring(from, to), indices from 0, for 0 <= from <= to <= length
Substring(str, from, to) == SubSeq(str, from + 1, to)

Max(a, b) == IF a >= b THEN a ELSE b

Min(a, b) == IF a <= b THEN a ELSE b

Max3(a, b, c) == Max(a, Max(b, c))

\* A window that always ends at the hard cutoff.
ChunkEnd_HardCutoff(str, size, start) == Min(start + size, Len(str))

\* The end of the window starting at start (upload.module.ts:233-248): the
\* hard cutoff, or just past the last break character when that lies beyond
\* half a chunk from the start.  chunkSize * 0.5 is a floating-point product.
ChunkEnd(str, size, start) ==
    LET endIndex == Min(start + size, Len(str))
        breakPoint == Max3(LastIndexOf(str, ".", endIndex),
                           LastIndexOf(str, "\n", endIndex),
                           LastIndexOf(str, " ", endIndex))
    IN  IF endIndex < Len(str) /\ 2 * breakPoint > 2 * start + size
        THEN breakPoint + 1
        ELSE endIndex

\* The next start one character past the overlap: the character at the end
\* of a window is skipped when the overlap is 0.
NextStart_LeavesGap(end, overlap, start) == Max(end + 1 - overlap, start + 1)

\* The next start without the progress floor of one character.
NextStart_NoProgress(end, overlap, start) == Max(end - overlap, start)

\* The start of the next window (upload.module.ts:257-260).
NextStart(end, overlap, start) == Max(end - overlap, start + 1)

\* One run of the loop body read text[start .. end - 1]; emitted tells whether
\* its trimmed substring was pushed on chunks.
Window(start, end, emitted) == [start |-> start, end |-> end, emitted |-> emitted]

\* splitTextIntoChunks is entered: a text no longer than a chunk is returned whole.
SplitStart ==
    /\ kpc = "start"
    /\ IF Len(text) <= chunkSize
       THEN chunks' = <<text>> /\ kpc' = "done"
       ELSE chunks' = chunks /\ kpc' = "loop"
    /\ UNCHANGED <<text, chunkSize, chunkOverlap, startIndex, iterations, windows>>
    /\ UNCHANGED notChunker

\* One run of the loop body (upload.module.ts:232-266).
SplitIteration ==
    /\ kpc = "loop"
    /\ startIndex < Len(text)
    /\ LET chunkEnd == ChunkEnd(text, chunkSize, startIndex)
           chunk == Trim(Substring(text, startIndex, chunkEnd))
       IN  /\ chunks' = IF Len(chunk) > 0 THEN Append(chunks, chunk) ELSE chunks
           /\ startIndex' = NextStart(chunkEnd, chunkOverlap, startIndex)
           /\ windows' = Append(windows, Window(startIndex, chunkEnd, Len(chunk) > 0))
    /\ iterations' = iterations + 1
    /\ kpc' = IF startIndex' >= Len(text) THEN "done" ELSE "loop"
    /\ UNCHANGED <<text, chunkSize, chunkOverlap>>
    /\ UNCHANGED notChunker

----------------------------------------------------------------------------
(* UploadService.processDocument and VectorStoreService.storeVectors: values *)

NoFile == [mimetype |-> "", size |-> 0, buffer |-> <<>>]

NoUpload ==
    [settled |-> FALSE, ok |-> FALSE, chunkCount |-> 0, error |-> "", exception |-> ""]

\* The ids randomUUID() can give a document.
DocumentIds == { "d1", "d2" }

maxFileSize == 10485760

allowedMimeTypes ==
    { "application/pdf",
      "application/vnd.openxmlformats-officedocument.wordprocessingml.document",
      "application/msword",
      "text/plain" }

\* The records of one document all under the id of its first chunk.
VectorRecord_SharedId(doc, i, n, chunk) ==
    [id |-> <<doc, "_chunk_", 0>>, documentId |-> doc, chunkIndex |-> i,
     totalChunks |-> n, text |-> chunk]

\* A vector record of chunk i of n; the id is `${documentId}_chunk_${i}` and
\* the metadata are documentId, chunkIndex, totalChunks and text.
VectorRecord(doc, i, n, chunk) ==
    [id |-> <<doc, "_chunk_", i>>, documentId |-> doc, chunkIndex |-> i,
     totalChunks |-> n, text |-> chunk]

\* processDocument rejected with a BadRequestException carrying this message.
Rejected(message) ==
    [settled |-> TRUE, ok |-> FALSE, chunkCount |-> 0, error |-> message,
     exception |-> "BadRequestException"]

\* processDocument resolved.
Resolved(n) ==
    [settled |-> TRUE, ok |-> TRUE, chunkCount |-> n, error |-> "", exception |-> ""]

\* The message OpenAIService.generateEmbedding rejects with when the client
\* call fails with e (openai.service.ts:52-89).
GenerateEmbeddingError(e) ==
    IF e.hasResponse
    THEN IF e.status = 429
         THEN "OpenAI API rate limit exceeded. Please try again later or check your plan limits."
         ELSE IF e.status = 401
         THEN "OpenAI API authentication failed. Please check your API key in .env file."
         ELSE IF e.status = 402 \/ IncludesQuota(e.message)
         THEN "OpenAI API quota exceeded. Please check your plan and billing details at https://platform.openai.com/account/billing"
         ELSE IF e.status = 500 \/ e.status = 503
         THEN "OpenAI API service is temporarily unavailable. Please try again later."
         ELSE "OpenAI API error: " \o e.message
    ELSE "Embedding generation failed: " \o e.message

\* errorMessage.includes('quota') || includes('rate limit') || includes('OpenAI')
\* on the messages processDocument can reject with.
IsOpenAIUploadMessage(message) ==
    \E e \in { x \in ClientErrors : x.hasResponse } :
        message \in { GenerateEmbeddingError(e),
                      "Failed to process document: " \o GenerateEmbeddingError(e) }

\* UploadController.uploadFile given the outcome of processDocument: the
\* document, the BadRequestException rethrown, or an
\* InternalServerErrorException (upload.controller.ts:45-82).
uploadFile(outcome) ==
    IF outcome.ok
    THEN [status |-> 201, success |-> TRUE, error |-> "", message |-> ""]
    ELSE IF outcome.exception = "BadRequestException"
    THEN [status |-> 400, success |-> FALSE, error |-> "Bad Request",
          message |-> outcome.error]
    ELSE IF IsOpenAIUploadMessage(outcome.error)
    THEN [status |-> 500, success |-> FALSE, error |-> "OpenAI API Error",
          message |-> outcome.error]
    ELSE [status |-> 500, success |-> FALSE, error |-> "File Processing Error",
          message |-> "Failed to process file: " \o outcome.error]

----------------------------------------------------------------------------
(* VectorStoreService.storeVectors *)

batchSize == 100

\* The messages index.upsert can reject with.
UpsertErrors ==
    { "connect ECONNREFUSED 10.0.0.1:443",
      "getaddrinfo ENOTFOUND index.pinecone.io",
      "Request timeout",
      "Vector dimension 3 does not match the dimension of the index 1536" }

\* The message of the timer that races every upsert (vector-store.service.ts:93-98).
UpsertTimeout == "Pinecone upsert timeout after 15 seconds"

\* error.message?.includes('timeout') on the messages above
IncludesTimeout(message) == message \in { "Request timeout", UpsertTimeout }

\* includes('ECONNREFUSED') || includes('ENOTFOUND') || includes('network')
IncludesConnection(message) ==
    message \in { "connect ECONNREFUSED 10.0.0.1:443",
                  "getaddrinfo ENOTFOUND index.pinecone.io" }

\* The message storeVectors rejects with for an error caught at
\* vector-store.service.ts:106-131.
StoreVectorsError(message) ==
    IF IncludesTimeout(message)
    THEN "Vector database storage timed out. Please try again later."
    ELSE IF IncludesConnection(message)
    THEN "Unable to connect to vector database. Please check your connection and try again."
    ELSE "Vector storage failed: " \o (IF message = "" THEN "Unknown error" ELSE message)

\* Array.prototype.slice(from, to), indices from 0, for 0 <= from <= to
Slice(seq, from, to) == SubSeq(seq, from + 1, Min(to, Len(seq)))

\* An entry of the upsert log: a batch is sent, or the awaited race settles.
Upsert(ev, batch) == [ev |-> ev, batch |-> batch]

IsCall(u) == u.ev = "call"

\* The batches sent so far by this call of storeVectors, in order.
SentBatches == SelectSeq(upserts, IsCall)

RECURSIVE Concatenated(_)
Concatenated(batches) ==
    IF Len(batches) = 0 THEN <<>> ELSE Head(batches).batch \o Concatenated(Tail(batches))

notStore ==
    <<pvars, cvars, kvars, rvars, fvars, file, upc, documentId, vectors, uploaded, others>>

\* storeVectors is entered: an empty array is an error, otherwise the first
\* batch is sent and the race with its timer is awaited.
StoreVectorsStart ==
    /\ vpc = "called"
    /\ IF Len(vectors) = 0
       THEN /\ vpc' = "threw"
            /\ storeThrown' = StoreVectorsError("No vectors provided")
            /\ UNCHANGED <<batchStart, upserts, indexed>>
       ELSE /\ vpc' = "upsert"
            /\ batchStart' = 0
            /\ upserts' = Append(upserts, Upsert("call", Slice(vectors, 0, batchSize)))
            /\ indexed' = indexed \o Slice(vectors, 0, batchSize)
            /\ UNCHANGED storeThrown
    /\ UNCHANGED notStore

\* The upsert of a batch rejected and the next batch is sent all the same.
UpsertThrows_SendsNext ==
    /\ vpc = "upsert"
    /\ batchStart' = batchStart + batchSize
    /\ IF batchStart' < Len(vectors)
       THEN /\ upserts' = upserts \o
                   << Upsert("throw", <<>>),
                      Upsert("call", Slice(vectors, batchStart', batchStart' + batchSize)) >>
            /\ indexed' = indexed \o Slice(vectors, batchStart', batchStart' + batchSize)
            /\ vpc' = "upsert"
       ELSE /\ upserts' = Append(upserts, Upsert("throw", <<>>))
            /\ vpc' = "returned"
            /\ UNCHANGED indexed
    /\ UNCHANGED storeThrown
    /\ UNCHANGED notStore

\* The upsert of the batch resolved: the next batch is sent, or storeVectors
\* returns after the last one.
UpsertReturns ==
    /\ vpc = "upsert"
    /\ batchStart' = batchStart + batchSize
    /\ IF batchStart' < Len(vectors)
       THEN /\ upserts' = upserts \o
                   << Upsert("ret", <<>>),
                      Upsert("call", Slice(vectors, batchStart', batchStart' + batchSize)) >>
            /\ indexed' = indexed \o Slice(vectors, batchStart', batchStart' + batchSize)
            /\ vpc' = "upsert"
       ELSE /\ upserts' = Append(upserts, Upsert("ret", <<>>))
            /\ vpc' = "returned"
            /\ UNCHANGED indexed
    /\ UNCHANGED storeThrown
    /\ UNCHANGED notStore

\* The upsert of the batch rejected: the catch maps the error and rethrows.
UpsertThrows ==
    /\ vpc = "upsert"
    /\ \E e \in UpsertErrors : storeThrown' = StoreVectorsError(e)
    /\ upserts' = Append(upserts, Upsert("throw", <<>>))
    /\ vpc' = "threw"
    /\ UNCHANGED <<batchStart, indexed>>
    /\ UNCHANGED notStore

\* The 15 s timer fired before the upsert settled: the race rejects.
UpsertTimesOut ==
    /\ vpc = "upsert"
    /\ storeThrown' = StoreVectorsError(UpsertTimeout)
    /\ upserts' = Append(upserts, Upsert("timeout", <<>>))
    /\ vpc' = "threw"
    /\ UNCHANGED <<batchStart, indexed>>
    /\ UNCHANGED notStore

----------------------------------------------------------------------------
(* UploadService.processDocument *)

notUpload == <<pvars, cvars, rvars, fvars>>

\* The locals of the call of processDocument in turn.
UploadLocals ==
    [file |-> file, upc |-> upc, documentId |-> documentId, vectors |-> vectors,
     uploaded |-> uploaded, vpc |-> vpc, batchStart |-> batchStart,
     upserts |-> upserts, storeThrown |-> storeThrown, text |-> text, kpc |-> kpc,
     startIndex |-> startIndex, chunks |-> chunks, iterations |-> iterations,
     windows |-> windows]

\* The call u is suspended on an await: on extractTextFromFile, on the
\* embedding of a chunk or on the upsert of a batch (upload.module.ts:64, 80,
\* 107; vector-store.service.ts:93).  Validation, splitting and the loop
\* bookkeeping run without a return to the event loop.
AtAwait(u) ==
    \/ u.upc \in { "extract", "embed" }
    \/ u.upc = "store" /\ u.vpc = "upsert"

\* The call u has resolved or rejected.
Settled(u) == u.upc \in { "returned", "threw" }

\* The ids randomUUID() gave the other calls of processDocument.
EarlierIds ==
    { documentId } \cup { others[i].documentId : i \in 1..Len(others) }

\* processDocument is entered: the file is validated, the document gets an
\* id no earlier call got and the text extraction is awaited.
ProcessDocumentStart ==
    /\ upc = "called"
    /\ IF file.size > maxFileSize
       THEN /\ uploaded' = Rejected("File size exceeds maximum allowed size of 10485760 bytes")
            /\ upc' = "threw"
            /\ UNCHANGED documentId
       ELSE IF file.mimetype \notin allowedMimeTypes
       THEN /\ uploaded' = Rejected("File type " \o file.mimetype \o
                                 " not supported. Supported types: PDF, DOCX, TXT")
            /\ upc' = "threw"
            /\ UNCHANGED documentId
       ELSE /\ documentId' \in DocumentIds \ EarlierIds
            /\ upc' = "extract"
            /\ UNCHANGED uploaded
    /\ UNCHANGED <<file, vectors, vpc, batchStart, upserts, storeThrown, indexed, others>>
    /\ UNCHANGED <<kvars, notUpload>>

\* The texts pdf-parse and mammoth give for a file: some text, or none
\* (result.text || '' is then the empty text).
ParsedTexts == { <<"a", ".">>, <<>> }

\* What a failing parser throws: an Error with a message, or a value that
\* is no Error: a string, undefined or null.
ParserFailures ==
    { [kind |-> "Error", message |-> "corrupt file"],
      [kind |-> "string", message |-> ""],
      [kind |-> "undefined", message |-> ""],
      [kind |-> "null", message |-> ""] }

\* The message of the error extractTextFromFile catches when the parser threw
\* e.  extractTextFromPDF asks whether e is an Error (upload.module.ts:201-203);
\* extractTextFromDOCX reads e.message unguarded (214-216): that is undefined
\* for a string, and for undefined or null the read itself throws a TypeError,
\* which leaves the catch in place of the "DOCX parsing failed" Error.
ParsingFailed(mimetype, e) ==
    IF mimetype = "application/pdf"
    THEN "PDF parsing failed: " \o (IF e.kind = "Error" THEN e.message ELSE "Unknown error")
    ELSE IF e.kind \in { "undefined", "null" }
    THEN "Cannot read properties of " \o e.kind \o " (reading 'message')"
    ELSE "DOCX parsing failed: " \o (IF e.kind = "Error" THEN e.message ELSE "undefined")

\* extractTextFromFile resolved: the text of a text/plain file is its buffer,
\* the text of a PDF or Word file is what its parser gave; a blank text is
\* refused and any other is split into chunks.
ExtractReturns ==
    /\ upc = "extract"
    /\ text' \in IF file.mimetype = "text/plain" THEN { file.buffer } ELSE ParsedTexts
    /\ IF Len(Trim(text')) = 0
       THEN /\ uploaded' = Rejected("File contains no extractable text")
            /\ upc' = "threw"
            /\ UNCHANGED kpc
       ELSE /\ upc' = "split"
            /\ kpc' = "start"
            /\ UNCHANGED uploaded
    /\ UNCHANGED <<chunkSize, chunkOverlap, startIndex, chunks, iterations, windows>>
    /\ UNCHANGED <<file, documentId, vectors, vpc, batchStart, upserts, storeThrown, indexed, others>>
    /\ UNCHANGED notUpload

\* extractTextFromFile rejected: the parser of a PDF or Word file threw and
\* the upload is refused with the parser's message (upload.module.ts:182-187).
ExtractThrows ==
    /\ upc = "extract"
    /\ file.mimetype # "text/plain"
    /\ \E e \in ParserFailures :
           uploaded' = Rejected("Failed to extract text from file: "
                                \o ParsingFailed(file.mimetype, e))
    /\ upc' = "threw"
    /\ UNCHANGED <<file, documentId, vectors, vpc, batchStart, upserts, storeThrown, indexed, others>>
    /\ UNCHANGED <<kvars, notUpload>>

\* splitTextIntoChunks returned: without chunks the upload is refused,
\* otherwise the embedding of the first chunk is awaited.
EmbedChunksStart ==
    /\ upc = "split"
    /\ kpc = "done"
    /\ IF Len(chunks) = 0
       THEN /\ uploaded' = Rejected("No valid chunks created from document")
            /\ upc' = "threw"
       ELSE /\ upc' = "embed"
            /\ UNCHANGED uploaded
    /\ UNCHANGED <<file, documentId, vectors, vpc, batchStart, upserts, storeThrown, indexed, others>>
    /\ UNCHANGED <<kvars, notUpload>>

\* The embedding of chunk i resolved: its vector is pushed and the next
\* chunk is embedded, or storeVectors is called after the last one.
EmbedChunkReturns ==
    /\ upc = "embed"
    /\ vectors' = Append(vectors, VectorRecord(documentId, Len(vectors), Len(chunks),
                                                chunks[Len(vectors) + 1]))
    /\ IF Len(vectors') < Len(chunks)
       THEN UNCHANGED <<upc, vpc>>
       ELSE upc' = "store" /\ vpc' = "called"
    /\ UNCHANGED <<file, documentId, uploaded, batchStart, upserts, storeThrown, indexed, others>>
    /\ UNCHANGED <<kvars, notUpload>>

\* The embedding of a chunk rejected: the error is rethrown and wrapped by
\* the outer catch (upload.module.ts:100-131).
EmbedChunkThrows ==
    /\ upc = "embed"
    /\ \E e \in ClientErrors :
         uploaded' = Rejected("Failed to process document: " \o GenerateEmbeddingError(e))
    /\ upc' = "threw"
    /\ UNCHANGED <<file, documentId, vectors, vpc, batchStart, upserts, storeThrown, indexed, others>>
    /\ UNCHANGED <<kvars, notUpload>>

\* storeVectors resolved: processDocument returns the document.
StoreVectorsResolves ==
    /\ upc = "store"
    /\ vpc = "returned"
    /\ uploaded' = Resolved(Len(chunks))
    /\ upc' = "returned"
    /\ UNCHANGED <<file, documentId, vectors, vpc, batchStart, upserts, storeThrown, indexed, others>>
    /\ UNCHANGED <<kvars, notUpload>>

\* storeVectors rejected: the outer catch wraps the error.
StoreVectorsRejects ==
    /\ upc = "store"
    /\ vpc = "threw"
    /\ uploaded' = Rejected("Failed to process document: " \o storeThrown)
    /\ upc' = "threw"
    /\ UNCHANGED <<file, documentId, vectors, vpc, batchStart, upserts, storeThrown, indexed, others>>
    /\ UNCHANGED <<kvars, notUpload>>

----------------------------------------------------------------------------
(* The frontend client: ChatService.queryStream of the api client reads the  *)
(* event stream ChatController.queryStream writes.  The stream is a sequence *)
(* of bytes: an ASCII character is the byte of that character, and the       *)
(* character U+00E9 is the two bytes C3 A9 of its UTF-8 encoding.            *)

\* The most bytes one reader.read() gives, short of the rest of the stream.
MaxRead == 3

\* The most chunk and context events of a stream.
MaxEvents == 1

\* res.write(`data: ${JSON.stringify(...)}\n\n`): the text before the JSON.
DataPrefix ==
    << "d", "a", "t", "a", ":", " " >>

\* JSON.stringify({ type, data }) up to the type.
JsonOpen ==
    << "{", "\"", "t", "y", "p", "e", "\"", ":", "\"" >>

\* ... between the type and a data that is a string.
JsonStringData ==
    << "\"", ",", "\"", "d", "a", "t", "a", "\"", ":", "\"" >>

\* ... between the type and a data that is an array or an object.
JsonObjectData ==
    << "\"", ",", "\"", "d", "a", "t", "a", "\"", ":" >>

\* The names of the event types.
TypeChars(type) ==
    CASE type = "chatId" -> <<"c", "h", "a", "t", "I", "d">>
      [] type = "chunk" -> <<"c", "h", "u", "n", "k">>
      [] type = "context" -> <<"c", "o", "n", "t", "e", "x", "t">>
      [] type = "done" -> <<"d", "o", "n", "e">>
      [] type = "error" -> <<"e", "r", "r", "o", "r">>

\* JSON.stringify of one context item without a source.
ContextJson ==
    << "[", "{", "\"", "t", "e", "x", "t", "\"", ":", "\"", "t", "\"", ",",
       "\"", "s", "c", "o", "r", "e", "\"", ":", "0", ".", "9", "}", "]" >>

\* JSON.stringify of the data of a done event, without and with a context.
DoneJson ==
    << "{", "\"", "c", "h", "a", "t", "I", "d", "\"", ":", "\"", "c", "1",
       "\"", ",", "\"", "a", "n", "s", "w", "e", "r", "\"", ":", "\"", "o",
       "k", "\"", "}" >>

DoneWithContextJson ==
    << "{", "\"", "c", "h", "a", "t", "I", "d", "\"", ":", "\"", "c", "1",
       "\"", ",", "\"", "a", "n", "s", "w", "e", "r", "\"", ":", "\"", "o",
       "k", "\"", ",", "\"", "c", "o", "n", "t", "e", "x", "t", "\"", ":",
       "[", "{", "\"", "t", "e", "x", "t", "\"", ":", "\"", "t", "\"", ",",
       "\"", "s", "c", "o", "r", "e", "\"", ":", "0", ".", "9", "}", "]",
       "}" >>

\* JSON.stringify({ type, data }) for a string s without quote or backslash.
JsonStringEvent(type, s) ==
    JsonOpen \o TypeChars(type) \o JsonStringData \o s \o <<"\"", "}">>

\* JSON.stringify({ type, data }) for a data whose JSON text is json.
JsonObjectEvent(type, json) ==
    JsonOpen \o TypeChars(type) \o JsonObjectData \o json \o <<"}">>

\* The events the server writes: the type and the JSON text of the line.
ChatIdEvent == [type |-> "chatId", data |-> <<"c", "1">>]

MiddleEvents ==
    { [type |-> "chunk", data |-> <<"o">>],
      [type |-> "chunk", data |-> <<"U+00E9">>],
      [type |-> "context", data |-> ContextJson] }

TerminalEvents ==
    { [type |-> "done", data |-> DoneJson],
      [type |-> "done", data |-> DoneWithContextJson],
      [type |-> "error", data |-> <<"b", "o", "o", "m">>] }

EventJson(e) ==
    IF e.type \in { "context", "done" }
    THEN JsonObjectEvent(e.type, e.data)
    ELSE JsonStringEvent(e.type, e.data)

\* The UTF-8 bytes of a text.
RECURSIVE Utf8(_)
Utf8(chars) ==
    IF Len(chars) = 0 THEN <<>>
    ELSE (IF Head(chars) = "U+00E9" THEN <<"C3", "A9">> ELSE <<Head(chars)>>)
         \o Utf8(Tail(chars))

\* The UTF-8 bytes of the JSON text of an event; only the data of a chunk
\* or an error has characters outside ASCII.
EventBytes(e) ==
    IF e.type \in { "context", "done" }
    THEN JsonObjectEvent(e.type, e.data)
    ELSE JsonStringEvent(e.type, Utf8(e.data))

\* The bytes of one res.write of an event (chat.controller.ts:306-352).
SseBytes(e) == DataPrefix \o EventBytes(e) \o <<"\n", "\n">>

RECURSIVE StreamBytes(_)
StreamBytes(events) ==
    IF Len(events) = 0 THEN <<>>
    ELSE SseBytes(Head(events)) \o StreamBytes(Tail(events))

\* The event sequences of a response the server has ended: the chatId, the
\* chunks and the context, then done or error.
EventSequences ==
    { <<ChatIdEvent>> \o mid \o <<t>> :
        mid \in UNION { [1..n -> MiddleEvents] : n \in 0..MaxEvents },
        t \in TerminalEvents }

\* What fetch resolves with: an event stream, a response without a body, or
\* a response that is not ok with its statusText, whether its body is JSON
\* and the `message` of that JSON ("" when absent).
Responses ==
    { [ok |-> TRUE, statusText |-> "OK", json |-> FALSE, message |-> "", body |-> TRUE,
       events |-> es, bytes |-> StreamBytes(es)] : es \in EventSequences }
    \cup { [ok |-> TRUE, statusText |-> "OK", json |-> FALSE, message |-> "",
            body |-> FALSE, events |-> <<>>, bytes |-> <<>>],
           [ok |-> FALSE, statusText |-> "Bad Request", json |-> TRUE, message |-> "",
            body |-> TRUE, events |-> <<>>, bytes |-> <<>>],
           [ok |-> FALSE, statusText |-> "Not Found", json |-> TRUE,
            message |-> "Cannot POST /chat/query/stream",
            body |-> TRUE, events |-> <<>>, bytes |-> <<>>],
           [ok |-> FALSE, statusText |-> "Bad Request", json |-> FALSE, message |-> "",
            body |-> TRUE, events |-> <<>>, bytes |-> <<>>],
           [ok |-> FALSE, statusText |-> "", json |-> FALSE, message |-> "",
            body |-> TRUE, events |-> <<>>, bytes |-> <<>>] }

\* The characters of complete UTF-8 bytes: C3 A9 is U+00E9, and a byte that
\* is no character of its own is replaced by U+FFFD.
IsCharacter(c) == c # "skip"

DecodeBytes(bytes) ==
    SelectSeq([i \in 1..Len(bytes) |->
                  IF bytes[i] = "C3"
                  THEN IF i < Len(bytes) /\ bytes[i + 1] = "A9" THEN "U+00E9" ELSE "U+FFFD"
                  ELSE IF bytes[i] = "A9"
                  THEN IF i > 1 /\ bytes[i - 1] = "C3" THEN "skip" ELSE "U+FFFD"
                  ELSE bytes[i]],
              IsCharacter)

\* decoder.decode(value) without { stream: true }: an incomplete character
\* at the end of the bytes is replaced at once.
decode_NoStream(pending, value) ==
    [chars |-> DecodeBytes(pending \o value), pending |-> <<>>]

\* decoder.decode(value, { stream: true }): the characters of the bytes kept
\* from the last call followed by value; the first byte of a character whose
\* second byte has not come is kept for the next call.
decode(pending, value) ==
    LET bytes == pending \o value
        n == Len(bytes)
    IN  IF n > 0 /\ bytes[n] = "C3"
        THEN [chars |-> DecodeBytes(SubSeq(bytes, 1, n - 1)), pending |-> <<"C3">>]
        ELSE [chars |-> DecodeBytes(bytes), pending |-> <<>>]

\* buffer.split('\n'): the texts between the newlines, at least one.
RECURSIVE Split(_)
Split(chars) ==
    IF \A i \in 1..Len(chars) : chars[i] # "\n"
    THEN <<chars>>
    ELSE LET at == CHOOSE i \in 1..Len(chars) :
                       chars[i] = "\n" /\ \A j \in 1..(i - 1) : chars[j] # "\n"
         IN  <<SubSeq(chars, 1, at - 1)>> \o Split(SubSeq(chars, at + 1, Len(chars)))

\* line.startsWith('data: ')
StartsWithData(line) ==
    Len(line) >= Len(DataPrefix) /\ SubSeq(line, 1, Len(DataPrefix)) = DataPrefix

NotParsed == [ok |-> FALSE, type |-> "", data |-> <<>>]

\* JSON.parse on the texts of the events above: the type and the data, or no
\* value when the text is not the JSON of an event (JSON.parse throws, or the
\* type is unknown).  A data that is an array or an object is named by its
\* JSON text.
ParseEvent(json) ==
    LET strings ==
            { t \in { "chatId", "chunk", "error" } :
                LET open == Len(JsonOpen) + Len(TypeChars(t)) + Len(JsonStringData)
                IN  /\ Len(json) >= open + 2
                    /\ json = JsonStringEvent(t, SubSeq(json, open + 1, Len(json) - 2))
                    /\ \A i \in (open + 1)..(Len(json) - 2) :
                           json[i] \notin { "\"", "\\", "\n" } }
        objects ==
            { e \in { x \in MiddleEvents \cup TerminalEvents :
                        x.type \in { "context", "done" } } :
                json = EventJson(e) }
    IN  IF strings # {}
        THEN LET t == CHOOSE t \in strings : TRUE
                 open == Len(JsonOpen) + Len(TypeChars(t)) + Len(JsonStringData)
             IN  [ok |-> TRUE, type |-> t,
                  data |-> SubSeq(json, open + 1, Len(json) - 2)]
        ELSE IF objects # {}
        THEN LET e == CHOOSE e \in objects : TRUE
             IN  [ok |-> TRUE, type |-> e.type, data |-> e.data]
        ELSE NotParsed

Callback(name, data) == [name |-> name, data |-> data]

\* The body of the loop over the lines (part_011:191-217) for one line: c is
\* the state of the call.  An error event throws inside the try whose catch
\* logs and goes on, as a line that does not parse does.
ProcessLine(c, line) ==
    IF ~ StartsWithData(line) THEN c
    ELSE LET parsed == ParseEvent(SubSeq(line, Len(DataPrefix) + 1, Len(line)))
         IN  IF ~ parsed.ok THEN c
             ELSE CASE parsed.type = "chatId" -> [c EXCEPT !.chatId = parsed.data]
                    [] parsed.type = "chunk" ->
                         [c EXCEPT !.callbacks = Append(@, Callback("onChunk", parsed.data))]
                    [] parsed.type = "context" ->
                         [c EXCEPT !.callbacks = Append(@, Callback("onContext", parsed.data))]
                    [] parsed.type = "done" ->
                         [c EXCEPT !.callbacks = Append(@, Callback("onDone", parsed.data))]
                    [] parsed.type = "error" -> c

RECURSIVE ProcessLines(_, _)
ProcessLines(c, lines) ==
    IF Len(lines) = 0 THEN c
    ELSE ProcessLines(ProcessLine(c, Head(lines)), Tail(lines))

\* The last line dropped instead of kept in the buffer.
ProcessRead_DropsPartialLine(c, value) ==
    LET decoded == decode(c.pending, value)
        lines == Split(c.buffer \o decoded.chars)
    IN  ProcessLines([c EXCEPT !.pending = decoded.pending,
                               !.buffer = <<>>,
                               !.pos = @ + Len(value)],
                     SubSeq(lines, 1, Len(lines) - 1))

\* One turn of the read loop with the bytes value (part_011:187-218): the
\* bytes are decoded and appended to the buffer, the buffer is split at the
\* newlines, the last piece stays in the buffer and the others are handled.
ProcessRead(c, value) ==
    LET decoded == decode(c.pending, value)
        lines == Split(c.buffer \o decoded.chars)
    IN  ProcessLines([c EXCEPT !.pending = decoded.pending,
                               !.buffer = lines[Len(lines)],
                               !.pos = @ + Len(value)],
                     SubSeq(lines, 1, Len(lines) - 1))

\* No call of the client's queryStream.
NoClient ==
    [fpc |-> "none", response |-> [ok |-> FALSE, statusText |-> "", json |-> FALSE,
                                   message |-> "", body |-> FALSE,
                                   events |-> <<>>, bytes |-> <<>>],
     pos |-> 0, fragmented |-> FALSE, pending |-> <<>>, buffer |-> <<>>,
     chatId |-> <<>>, callbacks |-> <<>>, error |-> ""]

ClientIdle == client = NoClient

\* queryStream awaiting fetch, which is to resolve with fetched.
Fetching(fetched) ==
    [NoClient EXCEPT !.fpc = "fetch", !.response = fetched]

notClient == <<pvars, cvars, kvars, uvars, rvars>>

\* fetch resolved: for a response that is not ok response.json() is awaited
\* (part_011:165-168); a response without a body rejects the call
\* (part_011:173-176); otherwise the body is read.
FetchReturns ==
    /\ client.fpc = "fetch"
    /\ client' = IF ~ client.response.ok
                 THEN [client EXCEPT !.fpc = "json"]
                 ELSE IF ~ client.response.body
                 THEN [client EXCEPT !.fpc = "rejected",
                                     !.error = "Response body is not readable"]
                 ELSE [client EXCEPT !.fpc = "reading"]
    /\ UNCHANGED notClient

\* fetch rejected (the server was not reached): the call rejects.
FetchThrows ==
    /\ client.fpc = "fetch"
    /\ client' = [client EXCEPT !.fpc = "rejected", !.error = "Failed to fetch"]
    /\ UNCHANGED notClient

\* response.json() settled: a body that is no JSON gives the status text as
\* the message, and the call rejects with the message or, when that is
\* empty, with the status text after "Request failed: " (part_011:166-170).
JsonReturns ==
    /\ client.fpc = "json"
    /\ LET errorData == IF client.response.json
                        THEN client.response.message
                        ELSE client.response.statusText
       IN  client' = [client EXCEPT !.fpc = "rejected",
                         !.error = IF errorData # ""
                                   THEN errorData
                                   ELSE "Request failed: " \o client.response.statusText]
    /\ UNCHANGED notClient

\* The sizes of the next read: a few bytes, or all but a few of the rest.
ReadSizes(remaining) ==
    { k \in 1..remaining : k <= MaxRead \/ remaining - k <= MaxRead }

\* reader.read() resolved with the next bytes of the stream; fragmented
\* tells that the stream has not come in one piece.
ReaderReads ==
    /\ client.fpc = "reading"
    /\ \E k \in ReadSizes(Len(client.response.bytes) - client.pos) :
         client' = [ProcessRead(client,
                        SubSeq(client.response.bytes, client.pos + 1, client.pos + k))
                    EXCEPT !.fragmented = k < Len(client.response.bytes)]
    /\ UNCHANGED notClient

\* reader.read() resolved with done: the loop breaks and the call resolves.
ReaderDone ==
    /\ client.fpc = "reading"
    /\ client.pos = Len(client.response.bytes)
    /\ client' = [client EXCEPT !.fpc = "resolved"]
    /\ UNCHANGED notClient

\* reader.read() rejected (the connection was lost): the finally releases
\* the lock and the call rejects.
ReaderThrows ==
    /\ client.fpc = "reading"
    /\ client' = [client EXCEPT !.fpc = "rejected", !.error = "network error"]
    /\ UNCHANGED notClient

----------------------------------------------------------------------------
(* Specification of one call of ChatService.query *)

QueryArgs ==
    [userMessage : { <<"h", "i">> },
     topK : { 1, 5, 20 },
     useRAG : BOOLEAN,
     compressPrompt : BOOLEAN,
     maxSummaryTokens : { 100, 500, 2000 },
     conversationHistory : { History(n) : n \in 0..MaxHistory }]

PipelineInit ==
    /\ searchResults = <<>>
    /\ rawContext = EmptyString
    /\ context = EmptyString
    /\ useRAGContext = FALSE
    /\ messages = <<>>
    /\ queryRequest = Undefined
    /\ calls = <<>>
    /\ response = NoResponse
    /\ thrown = ""

ControllerIdle ==
    /\ route = "none"
    /\ body = NoBody
    /\ cpc = "none"
    /\ handler = NoLocals
    /\ chats = [id \in ChatIds |-> NoChat]
    /\ storeLog = <<>>
    /\ res = NoRes
    /\ gen = NoGen

ChunkerIdle ==
    /\ text = <<>>
    /\ chunkSize = 1000
    /\ chunkOverlap = 200
    /\ kpc = "none"
    /\ startIndex = 0
    /\ chunks = <<>>
    /\ iterations = 0
    /\ windows = <<>>

\* No upload is in progress.
UploadIdle ==
    /\ file = NoFile
    /\ upc = "none"
    /\ documentId = ""
    /\ vectors = <<>>
    /\ uploaded = NoUpload
    /\ vpc = "none"
    /\ batchStart = 0
    /\ upserts = <<>>
    /\ indexed = <<>>
    /\ others = <<>>
    /\ storeThrown = ""

\* No concurrent requests are modelled.
NoRequests ==
    reqs = <<>>

Init ==
    /\ pc = "called"
    /\ args \in QueryArgs
    /\ PipelineInit
    /\ ControllerIdle
    /\ ChunkerIdle
    /\ UploadIdle
    /\ NoRequests
    /\ ClientIdle

Next ==
    \/ QueryStart
    \/ EmbedReturns
    \/ EmbedThrows
    \/ SearchReturns
    \/ SearchThrows
    \/ CompressionReturns
    \/ CompressionThrows
    \/ CompletionReturns
    \/ CompletionThrows

Spec == Init /\ [][Next]_vars

----------------------------------------------------------------------------
(* Specification of one request to ChatController *)

\* The chat "c1" is stored with some earlier turns or is not stored; the
\* other chats are not stored.
StoredLengths == { 0, 3, 12 }

InitController ==
    /\ pc = "idle"
    /\ args = NoArgs
    /\ PipelineInit
    /\ route = "none"
    /\ body = NoBody
    /\ cpc = "idle"
    /\ handler = NoLocals
    /\ chats \in { [id \in ChatIds |-> NoChat] }
                \cup { [id \in ChatIds |->
                          IF id = "c1"
                          THEN [exists |-> TRUE, messages |-> StoredHistory(n)]
                          ELSE NoChat] : n \in StoredLengths }
    /\ storeLog = <<>>
    /\ res = NoRes
    /\ gen = NoGen
    /\ ChunkerIdle
    /\ UploadIdle
    /\ NoRequests
    /\ ClientIdle

NextController ==
    \/ Receive
    \/ GetHistoryReturns
    \/ CreateHistoryReturns
    \/ StoreFails
    \/ PipelineReturns
    \/ PipelineThrows
    \/ AddMessageFindReturns
    \/ AddMessageCreateReturns
    \/ AddUserReturns
    \/ AddAssistantReturns
    \/ DeleteChatHistory
    \/ CreateChat
    \/ StreamYieldsChunk
    \/ StreamYieldsContext
    \/ StreamYieldsDone
    \/ StreamThrows
    \/ StreamCompletes
    \/ QueryStart
    \/ EmbedReturns
    \/ EmbedThrows
    \/ SearchReturns
    \/ SearchThrows
    \/ CompressionReturns
    \/ CompressionThrows
    \/ CompletionReturns
    \/ CompletionThrows

SpecController == InitController /\ [][NextController]_vars

----------------------------------------------------------------------------
(* Specification of one call of UploadService.splitTextIntoChunks *)

MaxTextLen == 5

MaxChunkSize == 3

MaxOverlap == 4

InitChunk ==
    /\ pc = "idle"
    /\ args = NoArgs
    /\ PipelineInit
    /\ ControllerIdle
    /\ text \in UNION { [1..n -> Alphabet] : n \in 0..MaxTextLen }
    /\ chunkSize \in 1..MaxChunkSize
    /\ chunkOverlap \in 0..MaxOverlap
    /\ kpc = "start"
    /\ startIndex = 0
    /\ chunks = <<>>
    /\ iterations = 0
    /\ windows = <<>>
    /\ UploadIdle
    /\ NoRequests
    /\ ClientIdle

NextChunk ==
    \/ SplitStart
    \/ SplitIteration

SpecChunk == InitChunk /\ [][NextChunk]_vars

----------------------------------------------------------------------------
(* Specification of splitTextIntoChunks on a sentence text *)

\* "Sentence one. Sentence two. Sentence three.", one string per character.
SentenceText ==
    <<"S", "e", "n", "t", "e", "n", "c", "e", " ", "o", "n", "e", ".",
      " ", "S", "e", "n", "t", "e", "n", "c", "e", " ", "t", "w", "o",
      ".", " ", "S", "e", "n", "t", "e", "n", "c", "e", " ", "t", "h",
      "r", "e", "e", ".">>

InitBoundary ==
    /\ pc = "idle"
    /\ args = NoArgs
    /\ PipelineInit
    /\ ControllerIdle
    /\ text = SentenceText
    /\ chunkSize \in 1..Len(SentenceText)
    /\ chunkOverlap \in 0..MaxOverlap
    /\ kpc = "start"
    /\ startIndex = 0
    /\ chunks = <<>>
    /\ iterations = 0
    /\ windows = <<>>
    /\ UploadIdle
    /\ NoRequests
    /\ ClientIdle

SpecBoundary == InitBoundary /\ [][NextChunk]_vars

----------------------------------------------------------------------------
(* Concurrent requests to ChatController.query and queryStream, to the      *)
(* route DELETE /chat/history/:chatId and calls of updateChatHistory: each   *)
(* is a chain of awaits, and the awaits of different requests interleave.    *)
(* The pipeline of a request touches no shared state and is one step here.   *)

MaxRequests == 2

Requests == 1..MaxRequests

\* The message of request r, different for every request.
RequestText(r) == [i \in 1..r |-> "x"]

UserMessage(r) == StoredMessage("user", RequestText(r), Undefined, <<>>)

\* The assistant message of request r: query stores the tokensUsed of its
\* result with it, queryStream stores none (chat.controller.ts:108-114, 339-344).
AssistantMessage(r) ==
    StoredMessage("assistant", RequestText(r) \o <<"!">>, Undefined,
                  IF reqs[r].route = "query"
                  THEN << [prompt |-> 0, completion |-> 0, total |-> 0] >>
                  ELSE <<>>)

\* The array a call of updateChatHistory stores.
UpdateMessages == << StoredMessage("user", <<"z">>, Undefined, <<>>) >>

\* The routes of ChatController that append to a chat.
AppendRoutes == { "query", "stream" }

\* A request: its route, its chatId, its position, the messages of the
\* document findOne gave it, the message pushed on that document, the
\* messages its addMessage calls have saved, and the document it holds:
\* "none", "held" once findOne or createChatHistory gave it one, "gone" once
\* that document was deleted from the collection.
Request(rt, id) ==
    [route |-> rt, chatId |-> id, rpc |-> "idle", found |-> <<>>, pushed |-> <<>>,
     saved |-> <<>>, doc |-> "none"]

notRequests ==
    <<pvars, kvars, uvars, fvars, route, body, cpc, handler, storeLog, res, gen>>

\* A query or queryStream request passed validation and awaits
\* getChatHistory(chatId) (chat.controller.ts:73-75, 284-286); a delete
\* awaits deleteOne; updateChatHistory awaits findChatHistory.
ReqReceive(r) ==
    /\ reqs[r].rpc = "idle"
    /\ reqs' = [reqs EXCEPT ![r].rpc = CASE reqs[r].route \in AppendRoutes -> "getHistory"
                                         [] reqs[r].route = "delete" -> "deleteOne"
                                         [] OTHER -> "find"]
    /\ UNCHANGED chats
    /\ UNCHANGED notRequests

\* findOne answered getChatHistory: a stored chat starts the pipeline, a
\* missing one throws NotFoundException and createChatHistory(chatId) is awaited.
ReqGetHistoryReturns(r) ==
    /\ reqs[r].rpc = "getHistory"
    /\ reqs' = [reqs EXCEPT ![r].rpc = IF chats[reqs[r].chatId].exists
                                       THEN "pipeline"
                                       ELSE "createHistory"]
    /\ UNCHANGED chats
    /\ UNCHANGED notRequests

\* The save of the new document settled: it is stored, or the unique index
\* on chatId rejects it when another request stored the chat meanwhile
\* (chat-history.schema.ts:8) and the request fails.
ReqCreateHistoryReturns(r) ==
    /\ reqs[r].rpc = "createHistory"
    /\ IF chats[reqs[r].chatId].exists
       THEN /\ reqs' = [reqs EXCEPT ![r].rpc = "failed"]
            /\ UNCHANGED chats
       ELSE /\ reqs' = [reqs EXCEPT ![r].rpc = "pipeline"]
            /\ chats' = [chats EXCEPT ![reqs[r].chatId] =
                                          [exists |-> TRUE, messages |-> <<>>]]
    /\ UNCHANGED notRequests

\* The pipeline returned or yielded done: addMessage for the user message
\* awaits findChatHistory (chat.controller.ts:102, 332).
ReqPipelineReturns(r) ==
    /\ reqs[r].rpc = "pipeline"
    /\ reqs' = [reqs EXCEPT ![r].rpc = "find", ![r].pushed = <<UserMessage(r)>>]
    /\ UNCHANGED chats
    /\ UNCHANGED notRequests

\* The pipeline threw: nothing is appended.
ReqPipelineThrows(r) ==
    /\ reqs[r].rpc = "pipeline"
    /\ reqs' = [reqs EXCEPT ![r].rpc = "failed"]
    /\ UNCHANGED chats
    /\ UNCHANGED notRequests

\* findOne answered addMessage or updateChatHistory: with the stored
\* document the array is changed and its save awaited, with null
\* createChatHistory(chatId) is awaited first
\* (chat-history.service.ts:65-71, 80-86).
ReqFindReturns(r) ==
    /\ reqs[r].rpc = "find"
    /\ reqs' = IF chats[reqs[r].chatId].exists
               THEN [reqs EXCEPT ![r].rpc = "save",
                                 ![r].found = chats[reqs[r].chatId].messages,
                                 ![r].doc = "held"]
               ELSE [reqs EXCEPT ![r].rpc = "create", ![r].found = <<>>]
    /\ UNCHANGED chats
    /\ UNCHANGED notRequests

\* The createChatHistory of addMessage or updateChatHistory settled: the new
\* document is stored and its save with the changed array is awaited, or
\* the unique index on chatId rejects it and the request fails
\* (chat-history.service.ts:22-31, 66-68, 81-83).
ReqAddCreateReturns(r) ==
    /\ reqs[r].rpc = "create"
    /\ IF chats[reqs[r].chatId].exists
       THEN /\ reqs' = [reqs EXCEPT ![r].rpc = "failed"]
            /\ UNCHANGED chats
       ELSE /\ reqs' = [reqs EXCEPT ![r].rpc = "save", ![r].doc = "held"]
            /\ chats' = [chats EXCEPT ![reqs[r].chatId] =
                                          [exists |-> TRUE, messages |-> <<>>]]
    /\ UNCHANGED notRequests

\* What the request does after its save: the assistant message follows the
\* user message, the response follows the assistant message; a call of
\* updateChatHistory returns.
AfterSave(r) ==
    IF reqs[r].route \notin AppendRoutes
    THEN [reqs[r] EXCEPT !.rpc = "responded", !.doc = "none"]
    ELSE IF reqs[r].pushed = <<UserMessage(r)>>
    THEN [reqs[r] EXCEPT !.rpc = "find",
                         !.saved = Append(@, UserMessage(r)),
                         !.pushed = <<AssistantMessage(r)>>,
                         !.doc = "none"]
    ELSE [reqs[r] EXCEPT !.rpc = "responded",
                         !.saved = Append(@, AssistantMessage(r)),
                         !.doc = "none"]

\* A save that writes the whole array of the document the request holds.
ReqSaveReturns_Overwrites(r) ==
    /\ reqs[r].rpc = "save"
    /\ IF reqs[r].doc = "gone"
       THEN /\ reqs' = [reqs EXCEPT ![r].rpc = "failed"]
            /\ UNCHANGED chats
       ELSE /\ chats' = [chats EXCEPT ![reqs[r].chatId].messages =
                                          IF reqs[r].route \in AppendRoutes
                                          THEN reqs[r].found \o reqs[r].pushed
                                          ELSE UpdateMessages]
            /\ reqs' = [reqs EXCEPT ![r] = AfterSave(r)]
    /\ UNCHANGED notRequests

\* The save of the document settled.  A document deleted since the request
\* got it is not found and the save rejects.  Mongoose saves an array changed
\* by push() as a $push of the pushed elements: they are appended to the
\* array as it is stored, not to the array as the request read it.  The
\* array assigned by updateChatHistory replaces the stored one
\* (chat-history.service.ts:69-71, 84-86); where mongoose refuses that save
\* because the document changed since it was read, the request fails
\* (ReqStoreFails).
ReqSaveReturns(r) ==
    /\ reqs[r].rpc = "save"
    /\ IF reqs[r].doc = "gone"
       THEN /\ reqs' = [reqs EXCEPT ![r].rpc = "failed"]
            /\ UNCHANGED chats
       ELSE /\ chats' = [chats EXCEPT ![reqs[r].chatId].messages =
                                          IF reqs[r].route \in AppendRoutes
                                          THEN @ \o reqs[r].pushed
                                          ELSE UpdateMessages]
            /\ reqs' = [reqs EXCEPT ![r] = AfterSave(r)]
    /\ UNCHANGED notRequests

\* deleteOne({ chatId }) settled: a stored chat is removed, and the documents
\* of it that requests hold are no longer in the collection; with nothing
\* deleted the route answers NotFoundException
\* (chat-history.service.ts:94-101, chat.controller.ts:228-246).
ReqDeleteReturns(r) ==
    /\ reqs[r].rpc = "deleteOne"
    /\ IF chats[reqs[r].chatId].exists
       THEN /\ chats' = [chats EXCEPT ![reqs[r].chatId] = NoChat]
            /\ reqs' = [q \in Requests |->
                           IF q = r
                           THEN [reqs[q] EXCEPT !.rpc = "responded"]
                           ELSE IF reqs[q].chatId = reqs[r].chatId /\ reqs[q].doc = "held"
                           THEN [reqs[q] EXCEPT !.doc = "gone"]
                           ELSE reqs[q]]
       ELSE /\ reqs' = [reqs EXCEPT ![r].rpc = "failed"]
            /\ UNCHANGED chats
    /\ UNCHANGED notRequests

\* A call of the chat-history store rejected: the request fails.
ReqStoreFails(r) ==
    /\ reqs[r].rpc \in { "getHistory", "createHistory", "find", "create", "save",
                         "deleteOne" }
    /\ reqs' = [reqs EXCEPT ![r].rpc = "failed"]
    /\ UNCHANGED chats
    /\ UNCHANGED notRequests

\* The chat "c1" is stored with two earlier messages, "c2" is not stored;
\* every request names one of them.
InitConcurrent ==
    /\ pc = "idle"
    /\ args = NoArgs
    /\ PipelineInit
    /\ route = "none"
    /\ body = NoBody
    /\ cpc = "none"
    /\ handler = NoLocals
    /\ chats = [id \in ChatIds |->
                   IF id = "c1"
                   THEN [exists |-> TRUE, messages |-> StoredHistory(2)]
                   ELSE NoChat]
    /\ storeLog = <<>>
    /\ res = NoRes
    /\ gen = NoGen
    /\ ChunkerIdle
    /\ UploadIdle
    /\ ClientIdle
    /\ reqs \in [Requests -> { Request(rt, id) :
                                   rt \in AppendRoutes \cup { "delete", "update" },
                                   id \in { "c1", "c2" } }]

NextConcurrent ==
    \E r \in Requests :
        \/ ReqReceive(r)
        \/ ReqGetHistoryReturns(r)
        \/ ReqCreateHistoryReturns(r)
        \/ ReqPipelineReturns(r)
        \/ ReqPipelineThrows(r)
        \/ ReqFindReturns(r)
        \/ ReqAddCreateReturns(r)
        \/ ReqSaveReturns(r)
        \/ ReqDeleteReturns(r)
        \/ ReqStoreFails(r)

SpecConcurrent == InitConcurrent /\ [][NextConcurrent]_vars

----------------------------------------------------------------------------
(* Specification of one call of VectorStoreService.storeVectors *)

MaxVectors == 201

InitStore ==
    /\ pc = "idle"
    /\ args = NoArgs
    /\ PipelineInit
    /\ ControllerIdle
    /\ ChunkerIdle
    /\ NoRequests
    /\ ClientIdle
    /\ file = NoFile
    /\ upc = "none"
    /\ documentId = ""
    /\ vectors \in { [i \in 1..n |-> VectorRecord("d1", i - 1, n, <<"a">>)] : n \in 0..MaxVectors }
    /\ uploaded = NoUpload
    /\ vpc = "called"
    /\ batchStart = 0
    /\ upserts = <<>>
    /\ indexed = <<>>
    /\ others = <<>>
    /\ storeThrown = ""

NextStore ==
    \/ StoreVectorsStart
    \/ UpsertReturns
    \/ UpsertThrows
    \/ UpsertTimesOut

SpecStore == InitStore /\ [][NextStore]_vars

----------------------------------------------------------------------------
(* Specification of one call of UploadService.processDocument *)

\* Two documents of 3000 characters, one without a break character and one
\* of four-letter words, a PDF and a Word file, and small files.
Files ==
    { [mimetype |-> "text/plain", size |-> 4, buffer |-> <<"a", "a", ".", "a">>] } \cup
    { [mimetype |-> "text/plain", size |-> 3000, buffer |-> [i \in 1..3000 |-> "a"]],
      [mimetype |-> "text/plain", size |-> 3000,
       buffer |-> [i \in 1..3000 |-> IF i % 5 = 0 THEN " " ELSE "a"]],
      [mimetype |-> "text/plain", size |-> 2, buffer |-> <<"a", ".">>],
      [mimetype |-> "text/plain", size |-> 1, buffer |-> <<" ">>],
      [mimetype |-> "application/pdf", size |-> 3, buffer |-> <<"%", "P", "D">>],
      [mimetype |-> "application/msword", size |-> 3, buffer |-> <<"P", "K", "x">>],
      [mimetype |-> "image/png", size |-> 1, buffer |-> <<"a">>],
      [mimetype |-> "text/plain", size |-> maxFileSize + 1, buffer |-> <<>>] }

InitIngest ==
    /\ pc = "idle"
    /\ args = NoArgs
    /\ PipelineInit
    /\ ControllerIdle
    /\ ChunkerIdle
    /\ NoRequests
    /\ ClientIdle
    /\ file \in Files
    /\ upc = "called"
    /\ documentId = ""
    /\ vectors = <<>>
    /\ uploaded = NoUpload
    /\ vpc = "none"
    /\ batchStart = 0
    /\ upserts = <<>>
    /\ indexed = <<>>
    /\ others = <<>>
    /\ storeThrown = ""

NextIngest ==
    \/ ProcessDocumentStart
    \/ ExtractReturns
    \/ ExtractThrows
    \/ SplitStart
    \/ SplitIteration
    \/ EmbedChunksStart
    \/ EmbedChunkReturns
    \/ EmbedChunkThrows
    \/ StoreVectorsStart
    \/ UpsertReturns
    \/ UpsertThrows
    \/ UpsertTimesOut
    \/ StoreVectorsResolves
    \/ StoreVectorsRejects

SpecIngest == InitIngest /\ [][NextIngest]_vars

----------------------------------------------------------------------------
(* Specification of concurrent uploads: UploadController.uploadFile calls    *)
(* processDocument for a request while the calls for other requests are     *)
(* suspended on their awaits                                                 *)

\* The files of the concurrent uploads: the small ones.
LaterFiles == { f \in Files : f.size < 3000 }

\* Another POST /upload arrives while the call in turn is suspended on an
\* await or has settled: uploadFile calls processDocument for it at once
\* (upload.controller.ts:47), with locals of its own; the call in turn stays
\* as it is among the others.  There are as many calls as DocumentIds has
\* ids to give.
UploadAgain ==
    /\ AtAwait(UploadLocals) \/ Settled(UploadLocals)
    /\ Len(others) + 1 < Cardinality(DocumentIds)
    /\ others' = Append(others, UploadLocals)
    /\ file' \in LaterFiles
    /\ upc' = "called"
    /\ documentId' = ""
    /\ upserts' = <<>>
    /\ vectors' = <<>>
    /\ uploaded' = NoUpload
    /\ vpc' = "none"
    /\ batchStart' = 0
    /\ storeThrown' = ""
    /\ text' = <<>>
    /\ kpc' = "none"
    /\ startIndex' = 0
    /\ chunks' = <<>>
    /\ iterations' = 0
    /\ windows' = <<>>
    /\ UNCHANGED <<indexed, chunkSize, chunkOverlap>>
    /\ UNCHANGED notUpload

\* The event loop turns to another call of processDocument: the call in
\* turn is suspended on an await or has settled, and one of the suspended
\* calls is the next to be resumed.
ResumeUpload ==
    /\ AtAwait(UploadLocals) \/ Settled(UploadLocals)
    /\ \E i \in 1..Len(others) :
         /\ AtAwait(others[i])
         /\ others' = [others EXCEPT ![i] = UploadLocals]
         /\ file' = others[i].file
         /\ upc' = others[i].upc
         /\ documentId' = others[i].documentId
         /\ vectors' = others[i].vectors
         /\ uploaded' = others[i].uploaded
         /\ vpc' = others[i].vpc
         /\ batchStart' = others[i].batchStart
         /\ upserts' = others[i].upserts
         /\ storeThrown' = others[i].storeThrown
         /\ text' = others[i].text
         /\ kpc' = others[i].kpc
         /\ startIndex' = others[i].startIndex
         /\ chunks' = others[i].chunks
         /\ iterations' = others[i].iterations
         /\ windows' = others[i].windows
    /\ UNCHANGED <<indexed, chunkSize, chunkOverlap>>
    /\ UNCHANGED notUpload

\* CHUNK_SIZE and CHUNK_OVERLAP are read from the configuration
\* (upload.module.ts:47-52): chunks of 2 characters with an overlap of 1.
InitUploads ==
    /\ pc = "idle"
    /\ args = NoArgs
    /\ PipelineInit
    /\ ControllerIdle
    /\ text = <<>>
    /\ chunkSize = 2
    /\ chunkOverlap = 1
    /\ kpc = "none"
    /\ startIndex = 0
    /\ chunks = <<>>
    /\ iterations = 0
    /\ windows = <<>>
    /\ NoRequests
    /\ ClientIdle
    /\ file \in LaterFiles
    /\ upc = "called"
    /\ documentId = ""
    /\ vectors = <<>>
    /\ uploaded = NoUpload
    /\ vpc = "none"
    /\ batchStart = 0
    /\ upserts = <<>>
    /\ indexed = <<>>
    /\ others = <<>>
    /\ storeThrown = ""

NextUploads ==
    \/ UploadAgain
    \/ ResumeUpload
    \/ NextIngest

SpecUploads == InitUploads /\ [][NextUploads]_vars

----------------------------------------------------------------------------
(* Specification of one call of the frontend client's queryStream *)

InitClient ==
    /\ pc = "idle"
    /\ args = NoArgs
    /\ PipelineInit
    /\ ControllerIdle
    /\ ChunkerIdle
    /\ UploadIdle
    /\ reqs = <<>>
    /\ client \in { Fetching(fetched) : fetched \in Responses }

NextClient ==
    \/ FetchReturns
    \/ FetchThrows
    \/ JsonReturns
    \/ ReaderReads
    \/ ReaderDone
    \/ ReaderThrows

SpecClient == InitClient /\ [][NextClient]_vars

----------------------------------------------------------------------------
(* Reading the state *)

Has(op, ev) == \E i \in 1..Len(calls) : calls[i] = Call(op, ev)

Count(op, ev) == Cardinality({ i \in 1..Len(calls) : calls[i] = Call(op, ev) })

\* query() has composed its messages and asked for the answer.
Composed == pc \in { "complete", "returned", "threw" }

GeneralMode ==
    /\ messages[1] = [role |-> "system", content |-> generalSystemInstruction]
    /\ messages[Len(messages)] = [role |-> "user", content |-> PlainText(args.userMessage)]

RagModeWith(ctx) ==
    /\ messages[1] = [role |-> "system", content |-> systemInstruction]
    /\ messages[Len(messages)] =
           [role |-> "user", content |-> composePrompt(args.userMessage, ctx)]

\* The position of the match with the given id in a result list, 0 if absent.
Position(results, id) ==
    LET at == { i \in 1..Len(results) : results[i].id = id }
    IN  IF at = {} THEN 0 ELSE CHOOSE i \in at : TRUE

----------------------------------------------------------------------------
(* Claims about ChatService.query *)

\* C1: when the embedding call or the similarity search throws, query() does
\* not reject with that error: the answer completion is requested with the
\* general system instruction and the raw user message, a rejection can only
\* come from the answer completion, and the returned context is absent.
C1_RetrievalFailureDegrades ==
    (Has("embed", "throw") \/ Has("search", "throw")) =>
        /\ Composed
        /\ Has("complete", "call")
        /\ GeneralMode
        /\ pc = "threw" => calls[Len(calls)] = Call("complete", "throw")
        /\ pc = "returned" => ~response.context.defined

C1_Witness ==
    /\ pc = "returned"
    /\ Has("search", "throw")
    /\ args.useRAG

\* C2: with retrieval succeeding, the results the context is built from are
\* exactly those scoring at least 0.5, in their original order, when there is
\* one; else all the results when there are any; and with no result no
\* context is used and the query runs in general mode.
C2_SelectionPolicy ==
    (Has("search", "ret") /\ pc # "search") =>
        LET used == rawContext.results
            above == { i \in 1..Len(searchResults) : searchResults[i].score >= 500 }
        IN  IF above # {}
            THEN /\ useRAGContext
                 /\ Len(used) = Cardinality(above)
                 /\ \A i \in above : Position(used, searchResults[i].id) > 0
                 /\ \A i, j \in 1..Len(used) :
                        i < j => /\ Position(searchResults, used[i].id) > 0
                                 /\ Position(searchResults, used[i].id)
                                      < Position(searchResults, used[j].id)
                 /\ \A i \in 1..Len(used) : used[i] \in Matches /\ used[i].score >= 500
            ELSE IF Len(searchResults) > 0
            THEN useRAGContext /\ used = searchResults
            ELSE /\ ~useRAGContext
                 /\ context = EmptyString
                 /\ Composed /\ GeneralMode

C2_Witness ==
    /\ pc = "complete"
    /\ Len(searchResults) = 2
    /\ Len(rawContext.results) = 1
    /\ searchResults[2].score = 500
    /\ rawContext.results[1] = searchResults[2]

\* C3: for a query with useRAG whose best score is at least 0.5, the returned
\* context array is as long as the list of results that passed the filter.
C3_ContextLengthIsFilteredCount ==
    (/\ pc = "returned"
     /\ args.useRAG
     /\ \E i \in 1..Len(searchResults) : searchResults[i].score >= 500) =>
        /\ response.context.defined
        /\ Len(response.context.items) = Len(rawContext.results)

\* C4: when the answer completion fails, query() rejects with the gateway's
\* error and returns no answer, whatever retrieval did.
C4_CompletionFailurePropagates ==
    Has("complete", "throw") =>
        /\ pc = "threw"
        /\ thrown \in { CreateChatCompletionError(e) : e \in ClientErrors }
        /\ response = NoResponse

C4_Witness ==
    /\ pc = "threw"
    /\ useRAGContext
    /\ Has("compress", "ret")
    /\ thrown = "Chat completion failed: socket hang up"

\* C5: when the compression completion throws, the context is the original
\* uncompressed one and the query goes on to the answer in RAG mode with it.
C5_CompressionFailureKeepsRawContext ==
    Has("compress", "throw") =>
        /\ Composed
        /\ Has("complete", "call")
        /\ context = rawContext
        /\ rawContext.kind = "raw"
        /\ RagModeWith(rawContext)
        /\ pc = "threw" => calls[Len(calls)] = Call("complete", "throw")
        /\ pc = "returned" => response.context.defined

C5_Witness ==
    /\ pc = "returned"
    /\ Has("compress", "throw")

\* C6: a compression completion is requested exactly when a context was
\* selected, compressPrompt is true and context.length / 4 exceeds
\* maxSummaryTokens; otherwise the prompt carries the raw context unchanged.
C6_CompressionExactlyWhenOverBudget ==
    LET issued == Has("compress", "call")
        settled == Has("search", "ret") /\ pc # "search"
    IN  /\ issued <=> /\ settled
                      /\ useRAGContext
                      /\ args.compressPrompt
                      /\ rawContext.len > 4 * args.maxSummaryTokens
        /\ Count("compress", "call") <= 1
        /\ (settled /\ useRAGContext /\ ~issued) =>
               /\ Composed
               /\ context = rawContext
               /\ RagModeWith(rawContext)

\* A context of exactly 2000 characters with maxSummaryTokens = 500 is not compressed.
C6_Witness ==
    /\ pc = "complete"
    /\ args.compressPrompt
    /\ args.maxSummaryTokens = 500
    /\ rawContext.len = 2000
    /\ ~Has("compress", "call")

\* C7: the messages sent for the answer are one system message, then the last
\* min(10, n) turns of the n-turn history in order and unchanged, then one
\* user turn.
C7_HistoryWindow ==
    Composed =>
        LET h == args.conversationHistory
            n == Len(h)
            k == IF n < 10 THEN n ELSE 10
        IN  /\ Len(messages) = k + 2
            /\ messages[1].role = "system"
            /\ \A i \in 1..k :
                   /\ messages[1 + i].role = h[n - k + i].role
                   /\ messages[1 + i].content = PlainText(h[n - k + i].content)
            /\ messages[k + 2].role = "user"
            /\ messages[k + 2].content.chars = args.userMessage
            /\ \A i \in 2..(k + 2) : messages[i].role # "system"

C7_Witness ==
    /\ pc = "complete"
    /\ Len(args.conversationHistory) = 15
    /\ Len(messages) = 12
    /\ messages[2].content.chars = <<"m", "6">>

\* The rank of a remote call in the order embed, search, compression, answer.
Rank(op) == CASE op = "embed" -> 1 [] op = "search" -> 2
                 [] op = "compress" -> 3 [] op = "complete" -> 4

\* C8: the remote calls of one query happen in the order embed, search,
\* compression, answer completion, each starting only after the previous one
\* has ended, and the messages are composed only once the context is final.
C8_SequentialPipeline ==
    /\ \A i \in 1..Len(calls) :
           calls[i].ev = "call" =>
               /\ i > 1 => calls[i - 1].ev \in { "ret", "throw" }
               /\ i < Len(calls) =>
                      calls[i + 1].op = calls[i].op /\ calls[i + 1].ev \in { "ret", "throw" }
    /\ \A i, j \in 1..Len(calls) :
           (i < j /\ calls[i].op # calls[j].op) => Rank(calls[i].op) < Rank(calls[j].op)
    /\ \A i \in 1..Len(calls) :
           (calls[i].ev = "call" /\ calls[i].op \in { "search", "compress" }) =>
               /\ i > 1
               /\ calls[i].op = "search" => calls[i - 1] = Call("embed", "ret")
               /\ calls[i].op = "compress" => calls[i - 1] = Call("search", "ret")
    /\ messages # <<>> <=> Has("complete", "call")
    /\ messages # <<>> =>
           /\ ~(pc \in { "embed", "search", "compress" })
           /\ messages[Len(messages)].content.context \in { context, EmptyString }

C8_Witness ==
    /\ pc = "returned"
    /\ calls = << Call("embed", "call"), Call("embed", "ret"),
                  Call("search", "call"), Call("search", "ret"),
                  Call("compress", "call"), Call("compress", "ret"),
                  Call("complete", "call"), Call("complete", "ret") >>
    /\ context.kind = "summary"

\* C21: in every outcome of query() the retrieval-augmented system
\* instruction, the composed context prompt as the user turn and a context
\* array in the response go together, and so do the general system
\* instruction, the raw user message and an absent context array; also when
\* the compression fails or returns empty text.
C21_ModeIsConsistent ==
    /\ Composed =>
          \/ RagModeWith(context) /\ useRAGContext /\ Truthy(context)
          \/ GeneralMode /\ ~useRAGContext
    /\ pc = "returned" =>
          IF response.context.defined
          THEN RagModeWith(context) /\ Len(response.context.items) > 0
          ELSE GeneralMode

C21_Witness ==
    /\ pc = "returned"
    /\ Has("compress", "throw")
    /\ RagModeWith(rawContext)
    /\ response.context.defined

----------------------------------------------------------------------------
(* Claims about ChatController *)

InitialStores ==
    { [id \in ChatIds |-> NoChat] }
    \cup { [id \in ChatIds |->
              IF id = "c1" THEN [exists |-> TRUE, messages |-> StoredHistory(n)]
                           ELSE NoChat] : n \in StoredLengths }

OutOfRange(opt, low, high) == opt.defined /\ (opt.value < low \/ opt.value > high)

\* The bodies the validation is to refuse.
InvalidBody(b) ==
    \/ b.message.type # "string"
    \/ \A i \in 1..Len(b.message.chars) : b.message.chars[i] \in WhiteSpace
    \/ OutOfRange(b.topK, 1, 20)
    \/ OutOfRange(b.maxSummaryTokens, 100, 2000)

\* The ChatHistoryService calls the handler has made for the request.
HandlerCalls == SelectSeq(storeLog, LAMBDA c : ~ IsDelete(c))

\* C9: a request with a missing, non-string or blank message, a topK outside
\* [1,20] or a maxSummaryTokens outside [100,2000] is answered with a client
\* error before any pipeline work: the handler answers 400 having made no
\* ChatHistoryService call and no pipeline call, and the step that receives
\* such a request leaves every chat as it was.  In-range values reach the
\* pipeline unchanged.
C9_ValidationBeforePipeline ==
    /\ [](route # "none" =>
            IF InvalidBody(body)
            THEN /\ cpc = "responded"
                 /\ res.status = 400
                 /\ res.ended
                 /\ res.written = <<>>
                 /\ HandlerCalls = <<>>
                 /\ handler = NoLocals
                 /\ pc = "idle" /\ calls = <<>>
                 /\ ~gen.started
            ELSE /\ res.status # 400
                 /\ \A a \in (IF pc # "idle" THEN { args } ELSE {})
                              \cup (IF gen.started THEN { gen.args } ELSE {}) :
                        /\ body.topK.defined => a.topK = body.topK.value
                        /\ body.maxSummaryTokens.defined =>
                               a.maxSummaryTokens = body.maxSummaryTokens.value
                        /\ a.topK \in 1..20
                        /\ a.maxSummaryTokens \in 100..2000)
    /\ [][(route' # "none" /\ InvalidBody(body')) => chats' = chats]_vars

C9_Witness ==
    /\ route = "stream"
    /\ body.message.chars = <<" ", "h", "i", " ">>
    /\ body.topK = Present(21)
    /\ body.useRAG = PresentFlag(FALSE)
    /\ body.chatId = "c1"
    /\ chats["c1"].exists
    /\ res.status = 400

\* C16: a query with useRAG issues exactly one embedding call and, once that
\* has returned, exactly one similarity search, which carries the caller's
\* topK; neither is repeated after a failure.  A query without useRAG issues
\* no embedding call and no search, and exactly one completion call.
C16_OneEmbeddingOneSearch ==
    pc \notin { "idle", "called" } =>
        IF args.useRAG
        THEN /\ Count("embed", "call") = 1
             /\ Count("embed", "ret") + Count("embed", "throw") <= 1
             /\ Count("search", "ret") + Count("search", "throw") <= 1
             /\ Has("embed", "ret") =>
                    /\ Count("search", "call") = 1
                    /\ queryRequest = Defined(<<[topK |-> args.topK,
                                                 includeMetadata |-> TRUE]>>)
             /\ ~ Has("embed", "ret") =>
                    /\ Count("search", "call") = 0
                    /\ queryRequest = Undefined
        ELSE /\ Count("embed", "call") = 0
             /\ Count("search", "call") = 0
             /\ queryRequest = Undefined
             /\ Count("complete", "call") = 1
             /\ Len(calls) <= 2

\* A query with topK 20 whose search failed has answered: one embedding call
\* and one search call were made.
C16_Witness ==
    /\ pc = "returned"
    /\ args.useRAG
    /\ args.topK = 20
    /\ Has("search", "throw")
    /\ Count("embed", "call") = 1
    /\ Count("search", "call") = 1

\* C15: once the streaming handler has finished with a request that passed
\* validation and started the event stream, the events written are the
\* chatId event, then chunk and context events only, then exactly one
\* terminal event, done or error, and nothing after it.
C15_OneTerminalEvent ==
    (route = "stream" /\ cpc \in { "responded", "returned" } /\ res.headers) =>
        LET n == Len(res.written)
        IN  /\ n >= 2
            /\ res.written[1].type = "chatId"
            /\ \A i \in 2..(n - 1) : res.written[i].type \in { "chunk", "context" }
            /\ res.written[n].type \in { "done", "error" }

\* The messages of chat id are those it started with followed by suffix.
AppendedTo(id, suffix) ==
    \E s0 \in InitialStores : chats[id].messages = s0[id].messages \o suffix

\* No DELETE of another client was answered during the request.
NoOtherDelete == \A i \in 1..Len(storeLog) : ~ IsDelete(storeLog[i])

\* C22: ChatController.query changes the stored messages of a chat only
\* after the pipeline has returned: once it has answered a request whose
\* pipeline succeeded, the request's chat holds the user message and then the
\* assistant answer after what it held before; after a failed validation or
\* a failed pipeline no chat holds a new message.  The chats are compared
\* in the behaviours where no other client deleted the chat meanwhile.
C22_AppendsBothAfterPipeline ==
    (route = "query" /\ NoOtherDelete) =>
        /\ (pc # "returned" \/ cpc \in { "idle", "getHistory", "createHistory", "pipeline" }) =>
               \A id \in ChatIds : AppendedTo(id, <<>>)
        /\ (pc = "returned" /\ cpc = "responded") =>
               /\ AppendedTo(handler.chatId,
                      << StoredMessage("user", handler.message, Undefined, <<>>),
                         StoredMessage("assistant", response.answer, response.context,
                                       <<response.tokensUsed>>) >>)
               /\ \A id \in ChatIds \ { handler.chatId } : AppendedTo(id, <<>>)

\* An event of the given type has been written to the response.
Written(type) == \E i \in 1..Len(res.written) : res.written[i].type = type

\* addMessage has been called by the handler.
AddMessageCalled ==
    \E i \in 1..Len(storeLog) : storeLog[i].op = "addMessage"

\* C23: queryStream appends to the history only once the pipeline has
\* yielded done (the handler is then saving, or has answered after saving):
\* until then addMessage is not called and every chat is as it was, in
\* particular after a stream that threw before done, however many chunks it
\* had yielded.  When the done event is written both addMessage calls have
\* returned and the chat holds the user message followed by the assistant
\* answer after what it held before.  The chats are compared in the
\* behaviours where no other client deleted the chat meanwhile; the order of
\* the calls holds in every behaviour.
C23_StreamAppendsOnDone ==
    route = "stream" =>
        /\ AddMessageCalled =>
               /\ gen.done
               /\ \/ cpc \in FindPositions \cup CreatePositions \cup SavePositions
                  \/ cpc = "responded" /\ (Written("done") \/ Written("error"))
        /\ ~ gen.done =>
               /\ ~ AddMessageCalled
               /\ ~ Written("done")
               /\ NoOtherDelete => \A id \in ChatIds : AppendedTo(id, <<>>)
        /\ cpc \in { "idle", "getHistory", "createHistory", "streaming", "returned" } =>
               ~ gen.done
        /\ Written("done") =>
               /\ NoOtherDelete =>
                      AppendedTo(handler.chatId,
                          << StoredMessage("user", handler.message, Undefined, <<>>),
                             StoredMessage("assistant", handler.fullAnswer, handler.context,
                                           <<>>) >>)
               /\ Len(SelectSeq(storeLog, LAMBDA c : c.op = "addMessage")) = 2
               /\ handler.history = "none"
               /\ res.written[Len(res.written)] =
                      Event("done", handler.chatId, handler.fullAnswer, handler.context, "")
        /\ (Written("error") /\ ~ gen.done) =>
               /\ cpc = "responded"
               /\ \A i \in 1..Len(storeLog) : storeLog[i].op # "addMessage"
               /\ NoOtherDelete => \A id \in ChatIds : AppendedTo(id, <<>>)

\* A stream on the stored chat yielded a chunk and then done: both messages
\* are stored and the done event is written.
C23_Witness ==
    /\ route = "stream"
    /\ handler.chatId = "c1"
    /\ Written("chunk")
    /\ Written("done")
    /\ Len(chats["c1"].messages) = 14

\* C24: once the streaming handler has finished with a request that passed
\* validation, the HTTP response is ended, whether the pipeline yielded
\* done, threw, or completed without yielding done.
C24_FinishedStreamIsEnded ==
    (route = "stream" /\ ~ InvalidBody(body) /\ cpc \in { "responded", "returned" }) =>
        res.ended

\* The messages createChatCompletion rejects with for a rate-limit, an
\* authentication and a quota error of the provider.
TypedGatewayMessages ==
    { CreateChatCompletionError(e) :
        e \in { x \in ClientErrors :
                  /\ x.hasResponse
                  /\ x.status \in { 429, 401, 402 } \/ IncludesQuota(x.message) } }

\* C27: when the answer completion failed with a rate-limit, quota or
\* authentication error of the completion gateway, query answers with the
\* error category 'OpenAI API Error' and the gateway's message unchanged; a
\* failure the gateway did not classify is answered with 'Chat Processing
\* Error'.
C27_GatewayErrorsAreDistinguished ==
    (route = "query" /\ cpc = "responded" /\ pc = "threw") =>
        /\ res.status = 500
        /\ thrown \in TypedGatewayMessages =>
               /\ res.error = "OpenAI API Error"
               /\ res.message = thrown
        /\ ~ IsOpenAIMessage(thrown) =>
               /\ res.error = "Chat Processing Error"
               /\ res.message = "Failed to process chat query: " \o thrown

\* A request that asked for no retrieval failed on a quota error of the
\* completion.
C27_Witness ==
    /\ route = "query"
    /\ cpc = "responded"
    /\ body.useRAG = PresentFlag(FALSE)
    /\ body.compressPrompt = PresentFlag(FALSE)
    /\ ~ args.useRAG
    /\ Has("complete", "throw")
    /\ thrown = "OpenAI API quota exceeded. Please check your plan and billing details at https://platform.openai.com/account/billing"
    /\ res.error = "OpenAI API Error"

\* s is a prefix of t.
IsPrefix(s, t) == Len(s) <= Len(t) /\ s = SubSeq(t, 1, Len(s))

\* The places of message m in the stored messages of chat id.
Places(id, m) ==
    { i \in 1..Len(chats[id].messages) : chats[id].messages[i] = m }

\* No call of updateChatHistory is among the requests.
OnlyAppendsAndDeletes ==
    \A r \in DOMAIN reqs : reqs[r].route \in AppendRoutes \cup { "delete" }

\* No delete of the chat has been answered.
NeverDeleted(id) ==
    \A r \in DOMAIN reqs :
        ~(reqs[r].route = "delete" /\ reqs[r].chatId = id /\ reqs[r].rpc = "responded")

\* Every message a request's addMessage has saved is stored once in the
\* request's chat, the user message before the assistant message.
NothingLost ==
    \A r \in DOMAIN reqs :
        NeverDeleted(reqs[r].chatId) =>
        /\ \A k \in 1..Len(reqs[r].saved) :
               Cardinality(Places(reqs[r].chatId, reqs[r].saved[k])) = 1
        /\ Len(reqs[r].saved) = 2 =>
               \A i \in Places(reqs[r].chatId, reqs[r].saved[1]) :
                   \A j \in Places(reqs[r].chatId, reqs[r].saved[2]) : i < j

\* C18: under any interleaving of query and queryStream requests, requests
\* on one chatId included, the messages of a chat before a step are a prefix
\* of its messages after the step unless the step deletes the chat, and
\* until the chat is deleted no message a request has appended is missing
\* from it.
C18_AppendOnly ==
    [][ OnlyAppendsAndDeletes =>
            /\ \A id \in ChatIds :
                   chats[id].exists /\ chats'[id].exists =>
                       IsPrefix(chats[id].messages, chats'[id].messages)
            /\ \A id \in ChatIds :
                   chats[id].exists /\ ~chats'[id].exists =>
                       \E r \in DOMAIN reqs : /\ reqs[r].route = "delete"
                                              /\ reqs[r].rpc = "deleteOne"
                                              /\ reqs'[r].rpc = "responded"
            /\ NothingLost' ]_vars

\* Two requests on chat "c1" have both answered and their appends
\* interleaved: both user messages are stored before both answers.
C18_Witness ==
    /\ DOMAIN reqs = Requests
    /\ \A r \in 1..2 : reqs[r].chatId = "c1" /\ reqs[r].rpc = "responded"
    /\ reqs[1].route = "query"
    /\ reqs[2].route = "stream"
    /\ Len(chats["c1"].messages) >= 6
    /\ \A i \in Places("c1", UserMessage(2)) :
           \A j \in Places("c1", AssistantMessage(1)) : i < j
    /\ \A i \in Places("c1", UserMessage(1)) :
           \A j \in Places("c1", AssistantMessage(2)) : i < j

----------------------------------------------------------------------------
(* Claims about UploadService.splitTextIntoChunks *)

\* C10: for any chunkSize >= 1 and overlap >= 0, overlap >= chunkSize
\* included, the loop body runs at most Len(text) times: the window start
\* grows by at least one on every iteration and the loop runs only while the
\* start is inside the text.
C10_ChunkingTerminates ==
    /\ iterations <= Len(text)
    /\ iterations <= startIndex
    /\ kpc = "loop" => startIndex < Len(text)
    /\ kpc = "done" =>
           \/ Len(text) <= chunkSize /\ iterations = 0
           \/ startIndex >= Len(text)

\* The worst case: an overlap no smaller than the chunk size, one iteration
\* per character.
C10_Witness ==
    /\ kpc = "done"
    /\ chunkOverlap >= chunkSize
    /\ Len(text) = MaxTextLen
    /\ iterations = Len(text)

\* The windows whose trimmed substring was pushed on chunks, in order: the
\* k-th of them is the source of chunks[k].
IsEmitted(w) == w.emitted

EmittedWindows == SelectSeq(windows, IsEmitted)

BreakCharacters == { ".", "\n", " " }

\* The highest member of a non-empty set of indices.
Highest(S) == CHOOSE i \in S : \A j \in S : j <= i

\* C11: every chunk splitTextIntoChunks returns is at most chunkSize
\* characters long, for every text, a break character at the right edge of a
\* window included.
C11_ChunksWithinChunkSize ==
    \A k \in 1..Len(chunks) : Len(chunks[k]) <= chunkSize

\* C13: for a text longer than chunkSize and any overlap >= 0 the windows
\* leave no gap: the first starts at 0 and each next one starts at or before
\* the end of the one before it.  Every chunk is its window less whitespace at
\* the two edges, and on return every character that is not whitespace lies
\* in the window of some chunk.
C13_WindowsCoverText ==
    Len(text) > chunkSize =>
        /\ \A k \in 1..Len(windows) :
               /\ k = 1 => windows[k].start = 0
               /\ k > 1 => windows[k].start <= windows[k - 1].end
        /\ Len(chunks) = Len(EmittedWindows)
        /\ \A k \in 1..Len(EmittedWindows) :
               LET w == EmittedWindows[k]
               IN  \E a \in (w.start + 1)..w.end : \E b \in a..w.end :
                       /\ chunks[k] = SubSeq(text, a, b)
                       /\ \A i \in ((w.start + 1)..(a - 1)) \cup ((b + 1)..w.end) :
                              text[i] \in WhiteSpace
        /\ kpc = "done" =>
               \A i \in 1..Len(text) :
                   text[i] \notin WhiteSpace =>
                       \E k \in 1..Len(EmittedWindows) :
                           /\ EmittedWindows[k].start < i
                           /\ i <= EmittedWindows[k].end

\* A text of full length split with no overlap into several chunks, one of
\* them shorter than its window because whitespace was trimmed, and one
\* window that held whitespace only.
C13_Witness ==
    /\ kpc = "done"
    /\ Len(text) = MaxTextLen
    /\ chunkOverlap = 0
    /\ Len(chunks) >= 2
    /\ Len(windows) > Len(chunks)
    /\ \E k \in 1..Len(chunks) :
           Len(chunks[k]) < EmittedWindows[k].end - EmittedWindows[k].start

\* C19: for every window whose hard cutoff start + chunkSize lies before the
\* end of the text, the candidate break point is the highest index at or
\* below the cutoff that holds a period, a newline or a space; the chunk ends
\* just after it exactly when it is greater than start + chunkSize * 0.5, and
\* at the cutoff otherwise.
C19_BreakPointRule ==
    \A k \in 1..Len(windows) :
        LET w == windows[k]
            cutoff == w.start + chunkSize
            candidates == { i \in 0..(Len(text) - 1) :
                                i <= cutoff /\ text[i + 1] \in BreakCharacters }
            accepted == /\ candidates # {}
                        /\ 2 * Highest(candidates) > 2 * w.start + chunkSize
        IN  (Len(text) > chunkSize /\ cutoff < Len(text)) =>
                w.end = IF accepted THEN Highest(candidates) + 1 ELSE cutoff

\* One window that ended just after its break point and one that ended at
\* the hard cutoff although the text before it holds a break character.
C19_Witness ==
    /\ \E k \in 1..Len(windows) :
           /\ windows[k].start + chunkSize < Len(text)
           /\ windows[k].end = windows[k].start + chunkSize + 1
           /\ text[windows[k].end] \in BreakCharacters
    /\ \E k \in 1..Len(windows) :
           /\ windows[k].start + chunkSize < Len(text)
           /\ windows[k].end = windows[k].start + chunkSize
           /\ \E i \in 1..windows[k].end : text[i] \in BreakCharacters

\* C20: with 0 < overlap < chunkSize the chunk whose window reaches the end of
\* the text is the last one emitted, and no chunk's window lies inside the
\* window of the chunk emitted before it.
C20_EndWindowIsLast ==
    (0 < chunkOverlap /\ chunkOverlap < chunkSize) =>
        /\ \A k \in 1..Len(EmittedWindows) :
               EmittedWindows[k].end = Len(text) => k = Len(EmittedWindows)
        /\ \A k \in 2..Len(EmittedWindows) :
               ~ /\ EmittedWindows[k - 1].start <= EmittedWindows[k].start
                 /\ EmittedWindows[k].end <= EmittedWindows[k - 1].end

\* The characters of a word.
IsWordCharacter(c) == c \notin BreakCharacters \cup WhiteSpace

\* The periods of the backtrack window of w: at or below the hard cutoff and
\* greater than start + chunkSize * 0.5.
PeriodsInBacktrack(w) ==
    { i \in 0..(Len(text) - 1) : /\ text[i + 1] = "."
                                 /\ i <= w.start + chunkSize
                                 /\ 2 * i > 2 * w.start + chunkSize }

\* The hard cutoff of w lies before the end of the text and between two
\* characters of a word, and a period lies within the backtrack window.
CutInsideWordAfterPeriod(w) ==
    /\ Len(text) > chunkSize
    /\ w.start + chunkSize < Len(text)
    /\ IsWordCharacter(text[w.start + chunkSize])
    /\ IsWordCharacter(text[w.start + chunkSize + 1])
    /\ PeriodsInBacktrack(w) # {}

\* C14 as stated: when the naive end falls inside a word and a period lies
\* within the backtrack window, the chunk ends at that period (nothing but
\* trimmed whitespace follows the period in the window).
C14_EndsAtPrecedingPeriod ==
    \A k \in 1..Len(windows) :
        LET w == windows[k]
        IN  CutInsideWordAfterPeriod(w) =>
                /\ w.end >= Highest(PeriodsInBacktrack(w)) + 1
                /\ \A i \in (Highest(PeriodsInBacktrack(w)) + 2)..w.end :
                       text[i] \in WhiteSpace

\* C14, amended: when the naive end falls inside a word and a period lies
\* within the backtrack window, the chunk is not cut inside the word: it ends
\* just after the last break character (period, newline or space) before the
\* naive end, which is at or after that period.
C14_EndsAtLastBreak ==
    \A k \in 1..Len(windows) :
        LET w == windows[k]
        IN  CutInsideWordAfterPeriod(w) =>
                /\ w.end >= Highest(PeriodsInBacktrack(w)) + 1
                /\ w.end <= w.start + chunkSize
                /\ text[w.end] \in BreakCharacters
                /\ \A i \in (w.end + 1)..(w.start + chunkSize) :
                       text[i] \notin BreakCharacters

\* chunkSize 40 puts the naive end inside "three" with the period after "two"
\* in the backtrack window: the chunk ends after the space before "three".
C14_Witness ==
    /\ chunkSize = 40
    /\ Len(windows) >= 1
    /\ CutInsideWordAfterPeriod(windows[1])
    /\ windows[1].end = 37
    /\ text[37] = " "
    /\ Len(chunks) >= 1
    /\ Len(chunks[1]) = 36

----------------------------------------------------------------------------
(* Claims about ingestion and VectorStoreService.storeVectors *)

\* C12: a document of 3000 characters split with chunkSize 1000 and overlap
\* 200 gives four or five chunks, and storeVectors sends them in one upsert.
C12_FourOrFiveChunksOneBatch ==
    (Len(text) = 3000 /\ chunkSize = 1000 /\ chunkOverlap = 200) =>
        /\ kpc = "done" => Len(chunks) \in 4..5
        /\ upc = "returned" => Len(SentBatches) = 1

\* C17: storeVectors sends the records in their order in batches of at most
\* 100, each batch only after the one before it has returned, and none after
\* a batch has failed or timed out; given n >= 1 records it returns after
\* ceil(n / 100) upserts, and given none it throws without an upsert.
C17_SequentialBatches ==
    /\ \A k \in 1..Len(upserts) :
           /\ upserts[k].ev = "call" =>
                  /\ Len(upserts[k].batch) \in 1..100
                  /\ k > 1 => upserts[k - 1].ev = "ret"
           /\ upserts[k].ev # "call" => (k > 1 /\ upserts[k - 1].ev = "call")
           /\ upserts[k].ev \in { "throw", "timeout" } =>
                  (k = Len(upserts) /\ vpc = "threw")
    /\ Len(Concatenated(SentBatches)) <= Len(vectors)
    /\ Concatenated(SentBatches) = SubSeq(vectors, 1, Len(Concatenated(SentBatches)))
    /\ \A k \in 1..(Len(SentBatches) - 1) : Len(SentBatches[k].batch) = 100
    /\ vpc = "returned" =>
           /\ Len(vectors) >= 1
           /\ Len(SentBatches) = (Len(vectors) + 99) \div 100
           /\ Concatenated(SentBatches) = vectors
    /\ (Len(vectors) = 0 /\ vpc \notin { "none", "called" }) =>
           (vpc = "threw" /\ upserts = <<>> /\ storeThrown # "")

\* 201 records were stored in three upserts.
C17_Witness ==
    /\ vpc = "returned"
    /\ Len(vectors) = 201
    /\ Len(SentBatches) = 3
    /\ Len(SentBatches[3].batch) = 1

\* The messages generateEmbedding rejects with for a rate-limit and a quota
\* error of the provider.
RateLimitOrQuotaMessages ==
    { GenerateEmbeddingError(e) :
        e \in { x \in ClientErrors :
                  /\ x.hasResponse
                  /\ x.status \in { 429, 402 } \/ (x.status # 401 /\ IncludesQuota(x.message)) } }

\* C28: when the embedding of a chunk failed with a rate-limit or quota
\* error during an upload, uploadFile answers with the internal server error
\* of category 'OpenAI API Error', neither a BadRequest nor the generic
\* 'File Processing Error'.
C28_EmbeddingFailureIsOpenAIError ==
    (upc = "threw" /\ \E m \in RateLimitOrQuotaMessages :
                         uploaded.error = "Failed to process document: " \o m) =>
        /\ uploadFile(uploaded).status = 500
        /\ uploadFile(uploaded).error = "OpenAI API Error"

\* The upserts the index has acknowledged: their records are in the index.
AcknowledgedUpserts ==
    { k \in 1..(Len(upserts) - 1) : upserts[k].ev = "call" /\ upserts[k + 1].ev = "ret" }

\* C29: when storing a document failed, on the embedding of a chunk or on
\* the upsert of a batch, the index holds no vector of the document: no
\* upsert of its records was acknowledged.
C29_FailedUploadLeavesNoVector ==
    (vpc = "threw" \/ upc = "threw") => AcknowledgedUpserts = {}

\* The calls of processDocument: the one in turn and the others.
Uploads == <<UploadLocals>> \o others

\* C30: after a successful processDocument that produced n chunks, the
\* records this call upserted are, in chunk order, the records with id
\* <documentId>_chunk_<i>, metadata documentId, chunkIndex i, totalChunks n
\* and the text of chunk i, for i = 0..n-1, and the index received each of
\* them; the records the index received from all the uploads, whether they
\* ran one after the other or interleaved, have pairwise distinct ids: no
\* two records of one upload and no two records of different uploads share
\* an id.
C30_RecordIdsIdentifyChunks ==
    /\ \A k \in 1..Len(Uploads) :
          (Uploads[k].upc = "returned" /\ Uploads[k].uploaded.ok) =>
              LET u == Uploads[k]
                  sent == Concatenated(SelectSeq(u.upserts, IsCall))
                  n == Len(u.chunks)
              IN  /\ u.uploaded.chunkCount = n
                  /\ Len(sent) = n
                  /\ \A i \in 1..n :
                         /\ sent[i] = [id |-> <<u.documentId, "_chunk_", i - 1>>,
                                       documentId |-> u.documentId,
                                       chunkIndex |-> i - 1,
                                       totalChunks |-> n,
                                       text |-> u.chunks[i]]
                         /\ \E j \in 1..Len(indexed) : indexed[j] = sent[i]
    /\ Cardinality({ indexed[i].id : i \in 1..Len(indexed) }) = Len(indexed)

\* Two documents of three chunks each were uploaded at the same time: the
\* call in turn has returned, and the upsert the other call sent before it
\* is still awaited.
C30_Witness ==
    /\ upc = "returned"
    /\ uploaded.ok
    /\ Len(chunks) = 3
    /\ Len(others) = 1
    /\ others[1].upc = "store"
    /\ others[1].vpc = "upsert"
    /\ Len(others[1].vectors) = 3
    /\ Len(indexed) = 6
    /\ indexed[1].documentId = others[1].documentId
    /\ indexed[4].id = <<documentId, "_chunk_", 0>>

----------------------------------------------------------------------------
(* Claims about the frontend client's queryStream *)

\* The response carries an event of the given type.
Sent(type) ==
    \E i \in 1..Len(client.response.events) : client.response.events[i].type = type

IsCallbackEvent(e) == e.type \in { "chunk", "context", "done" }

\* The callbacks the events of the response ask for, in their order.
ExpectedCallbacks ==
    LET events == SelectSeq(client.response.events, IsCallbackEvent)
    IN  [i \in 1..Len(events) |->
            Callback(CASE events[i].type = "chunk" -> "onChunk"
                       [] events[i].type = "context" -> "onContext"
                       [] events[i].type = "done" -> "onDone",
                     events[i].data)]

\* C25: the client's queryStream rejects with an Error when the request
\* failed: when the response is not ok, and when the server reported the
\* failure by an error event after the stream had started; then the call
\* does not resolve and onDone is not called.
C25_ErrorEventRejects ==
    (client.fpc \in { "resolved", "rejected" }
        /\ (~ client.response.ok \/ Sent("error"))) =>
        /\ client.fpc = "rejected"
        /\ client.error # ""
        /\ \A i \in 1..Len(client.callbacks) : client.callbacks[i].name # "onDone"

\* C26: however the bytes of the stream are split over the results of
\* reader.read(), the callbacks made once the bytes up to a position are
\* read, the chatId and the text kept in the buffer are those of one read
\* of all these bytes; when the call resolves the callbacks are those the
\* events of the stream ask for, with their payloads, in their order.
C26_FragmentationInvariant ==
    client.fpc \in { "reading", "resolved" } =>
        LET whole == ProcessRead([NoClient EXCEPT !.response = client.response],
                                 SubSeq(client.response.bytes, 1, client.pos))
        IN  /\ client.callbacks = whole.callbacks
            /\ client.chatId = whole.chatId
            /\ client.buffer = whole.buffer
            /\ client.pending = whole.pending
            /\ client.fpc = "resolved" => client.callbacks = ExpectedCallbacks

\* A stream that came in pieces has been read to its end: the chunk with
\* the two-byte character, then done.
C26_Witness ==
    /\ client.fpc = "resolved"
    /\ client.fragmented
    /\ client.chatId = <<"c", "1">>
    /\ client.callbacks = << Callback("onChunk", <<"U+00E9">>),
                             Callback("onDone", DoneJson) >>

====
